---- MODULE Spec2Model ----
(***************************************************************************)
(* Ledger and fiscal reconciliation engine of condominio-saas.            *)
(*                                                                         *)
(* The database tables (units, categories, transactions) are the state.   *)
(* Each action is one service method or job of backend/app, run in its    *)
(* own database session and committed by its caller (core/database.py     *)
(* get_db), except where a specification models the sessions themselves.  *)
(* Money is counted in whole units; a date is <<year, month, day>>; a      *)
(* fiscal period is the 7-character string "YYYY-MM", kept as the tuple of *)
(* its character codes so that string comparison can be modelled.         *)
(*                                                                         *)
(* units, categories, transactions and users are the committed tables     *)
(* (a transaction's id is its index); last is the outcome of the latest   *)
(* request: its operation, the caller's condominium, "ok" or the error,   *)
(* and the returned values; sess holds the open database sessions of the  *)
(* concurrent specification; platform is the C library under strftime.    *)
(*                                                                         *)
(* Specifications: Spec (the ledger of one condominium), SpecDup          *)
(* (maintenance-fee payments of two units), SpecAuto (the monthly job),   *)
(* SpecStatement (financial statement and dashboard), SpecClassify        *)
(* (classify_payment), SpecTenant (two condominiums), SpecConc            *)
(* (concurrent create_transaction requests), SpecJob (the monthly job     *)
(* statement by statement, with store failures), SpecJobConc (a scheduled *)
(* and a manual run of the job), SpecRequest (one request in its session, *)
(* with validation errors and store failures), SpecFilter (the statement  *)
(* with and without a virtual category), SpecEntry (create_transaction    *)
(* with and without a unit), SpecStatus (the statement over rows of every *)
(* status), SpecUnit (delete_unit).                                        *)
(***************************************************************************)
EXTENDS Integers, Sequences, FiniteSets, TLC

VARIABLES units, categories, transactions, users, last, sess, platform

vars == <<units, categories, transactions, users, last, sess, platform>>

(* ------------------------------------------------------------------ *)
(* Bounds                                                              *)
(* ------------------------------------------------------------------ *)
\* Largest number of rows of the transactions table.
MaxTx == 1

\* Largest magnitude of a unit balance.
MaxBalance == 2

(* ------------------------------------------------------------------ *)
(* Values                                                              *)
(* ------------------------------------------------------------------ *)
\* None for identifiers and enum values; 0 for an absent amount; <<>> for
\* an absent date or fiscal period.
NULL == "NULL"

NoAmount == 0

NoDate == <<>>

NoPeriod == <<>>

INCOME == "income"

EXPENSE == "expense"

PENDING == "pending"

CONFIRMED == "confirmed"

CANCELLED == "cancelled"

REFUNDED == "refunded"

OCCUPIED == "occupied"

VACANT == "vacant"

MAINTENANCE == "maintenance"

TransactionStatus == {PENDING, CONFIRMED, CANCELLED, REFUNDED}

MAINTENANCE_FEE == "Cuota de Mantenimiento"

VIRTUAL_ISSUANCE == "Emisión de Cuota"

UNITLESS_INCOME == {"Intereses bancarios", "Otros ingresos"}

(* ------------------------------------------------------------------ *)
(* Strings of digits, dates and fiscal periods                         *)
(* ------------------------------------------------------------------ *)
\* Character code of a decimal digit, and of the hyphen.
Chr(d) == 48 + d

Hyphen == 45

\* Python / SQL string order: the first differing character decides, and a
\* proper prefix is smaller.
RECURSIVE StrLess(_, _)
StrLess(s, t) ==
    IF t = <<>> THEN FALSE
    ELSE IF s = <<>> THEN TRUE
    ELSE IF Head(s) # Head(t) THEN Head(s) < Head(t)
    ELSE StrLess(Tail(s), Tail(t))

\* The decimal digits of a natural number, without leading zeros.
RECURSIVE Digits(_)
Digits(n) ==
    IF n < 10 THEN <<Chr(n)>> ELSE Digits(n \div 10) \o <<Chr(n % 10)>>

\* A year as four digits, zero-padded.
Pad4(y) ==
    <<Chr(y \div 1000), Chr((y \div 100) % 10), Chr((y \div 10) % 10),
      Chr(y % 10)>>

\* strftime("%Y"): CPython hands %Y to the C library; glibc prints the year
\* without padding, other libraries (and CPython from 3.13 on) pad to four
\* digits. The two agree from year 1000 on.
strftime_Y(y) ==
    IF platform.pad_year THEN Pad4(y) ELSE Digits(y)

\* date.strftime("%Y-%m"): the year, a hyphen, two digits of the month.
strftime_Ym(d) ==
    strftime_Y(d[1]) \o <<Hyphen, Chr(d[2] \div 10), Chr(d[2] % 10)>>

\* A "YYYY-MM" request parameter, as the schema's pattern admits it.
PeriodStr(y, m) ==
    Pad4(y) \o <<Hyphen, Chr(m \div 10), Chr(m % 10)>>

\* int(s) of a string of digits.
RECURSIVE int(_)
int(s) ==
    IF s = <<>> THEN 0
    ELSE 10 * int(SubSeq(s, 1, Len(s) - 1)) + (s[Len(s)] - 48)

\* Order of calendar dates.
DateLess(a, b) ==
    \/ a[1] < b[1]
    \/ a[1] = b[1] /\ a[2] < b[2]
    \/ a[1] = b[1] /\ a[2] = b[2] /\ a[3] < b[3]

classify_payment(fiscal_period, transaction_date) ==
    LET transaction_period == strftime_Ym(transaction_date)
    IN  [is_advance |-> StrLess(transaction_period, fiscal_period),
         is_late    |-> StrLess(fiscal_period, transaction_period)]

(* ------------------------------------------------------------------ *)
(* Rows and lookups                                                    *)
(* ------------------------------------------------------------------ *)
\* The movement that adds the amount whatever the type.
apply_amount_unsigned(balance, type, amount) == balance + amount

\* Unit.balance after a signed movement: income adds, expense subtracts.
apply_amount(balance, type, amount) ==
    IF type = INCOME THEN balance + amount ELSE balance - amount

\* The reverse movement: income subtracts, expense adds.
revert_amount(balance, type, amount) ==
    IF type = INCOME THEN balance - amount ELSE balance + amount

\* The ids of the rows of the transactions table.
TxIds == DOMAIN transactions

\* select(Category).where(Category.id == category_id): no tenant filter.
_get_category(category_id) ==
    {c \in DOMAIN categories : c = category_id}

\* select(Unit).where(Unit.id == unit_id): no tenant filter.
_get_unit(unit_id) ==
    {u \in DOMAIN units : u = unit_id}

\* select(Transaction).where(Transaction.id == transaction_id): the caller's
\* condominium plays no part in the lookup.
get_transaction(condo, transaction_id) ==
    {i \in TxIds : i = transaction_id}

_check_duplicate_payment(unit_id, category_id, fiscal_period) ==
    \E i \in TxIds :
        /\ transactions[i].unit_id = unit_id
        /\ transactions[i].category_id = category_id
        /\ transactions[i].fiscal_period = fiscal_period
        /\ transactions[i].type = INCOME
        /\ transactions[i].status # CANCELLED

(* ------------------------------------------------------------------ *)
(* TransactionService.create_transaction                               *)
(* ------------------------------------------------------------------ *)
\* data.fiscal_period or data.transaction_date.strftime("%Y-%m")
create_fiscal_period(data) ==
    IF data.fiscal_period # NoPeriod THEN data.fiscal_period
    ELSE strftime_Ym(data.transaction_date)

\* The checks without the allow-list: any income may come without a unit.
create_validation_error_any_unitless(data) ==
    IF _get_category(data.category_id) = {} THEN "CATEGORY_NOT_FOUND"
    ELSE IF categories[data.category_id].type # data.type
         THEN "CATEGORY_TYPE_MISMATCH"
    ELSE IF data.unit_id # NULL /\ _get_unit(data.unit_id) = {}
         THEN "UNIT_NOT_FOUND"
    ELSE "ok"

\* The ValueError of the category and unit checks, or "ok".
create_validation_error(data) ==
    IF _get_category(data.category_id) = {} THEN "CATEGORY_NOT_FOUND"
    ELSE IF categories[data.category_id].type # data.type
         THEN "CATEGORY_TYPE_MISMATCH"
    ELSE IF data.unit_id # NULL /\ _get_unit(data.unit_id) = {}
         THEN "UNIT_NOT_FOUND"
    ELSE IF /\ data.unit_id = NULL
            /\ data.type = INCOME
            /\ categories[data.category_id].name \notin UNITLESS_INCOME
         THEN "INCOME_REQUIRES_UNIT"
    ELSE "ok"

\* The duplicate pre-check of a maintenance-fee income with a unit.
create_duplicate(data) ==
    /\ data.type = INCOME
    /\ data.unit_id # NULL
    /\ categories[data.category_id].name = MAINTENANCE_FEE
    /\ _check_duplicate_payment(data.unit_id, data.category_id,
                                create_fiscal_period(data))

\* The ValueError create_transaction raises for data, or "ok".
create_error(data) ==
    IF create_validation_error(data) # "ok" THEN create_validation_error(data)
    ELSE IF create_duplicate(data) THEN "DUPLICATE_PAYMENT_SAME_PERIOD"
    ELSE "ok"

\* The Transaction row create_transaction adds; condominium_id is the one the
\* route hands over (current_user.condominium_id).
create_row(condo, data) ==
    LET fiscal_period == create_fiscal_period(data)
        flags == classify_payment(fiscal_period, data.transaction_date)
    IN  [condominium_id     |-> condo,
         unit_id            |-> data.unit_id,
         category_id        |-> data.category_id,
         type               |-> data.type,
         amount             |-> data.amount,
         transaction_date   |-> data.transaction_date,
         fiscal_period      |-> fiscal_period,
         status             |-> CONFIRMED,
         is_advance_payment |-> flags.is_advance,
         is_late_payment    |-> flags.is_late]

create_transaction(condo, data) ==
    /\ LET err == create_error(data)
       IN  IF err # "ok"
           THEN /\ last' = [op |-> "create", condo |-> condo,
                            result |-> err, ret |-> <<>>]
                /\ UNCHANGED <<units, transactions>>
           ELSE /\ transactions' = Append(transactions, create_row(condo, data))
                /\ units' =
                     IF data.unit_id # NULL
                     THEN [units EXCEPT ![data.unit_id].balance =
                               apply_amount(@, data.type, data.amount)]
                     ELSE units
                /\ last' = [op |-> "create", condo |-> condo,
                            result |-> "ok",
                            ret |-> IF data.unit_id # NULL
                                    THEN <<units'[data.unit_id].balance>>
                                    ELSE <<>>]
    /\ UNCHANGED <<categories, users, sess, platform>>

(* ------------------------------------------------------------------ *)
(* TransactionService.update_transaction                               *)
(* ------------------------------------------------------------------ *)
\* A TransactionUpdate with every field absent.
NoPatch ==
    [amount |-> NoAmount, status |-> NULL, transaction_date |-> NoDate,
     category_id |-> NULL, unit_id |-> NULL]

\* The ValueError update_transaction raises, or "ok".
update_error(condo, transaction_id, data) ==
    IF get_transaction(condo, transaction_id) = {} THEN "TRANSACTION_NOT_FOUND"
    ELSE IF data.category_id # NULL /\ _get_category(data.category_id) = {}
         THEN "CATEGORY_NOT_FOUND"
    ELSE IF data.unit_id # NULL /\ _get_unit(data.unit_id) = {}
         THEN "UNIT_NOT_FOUND"
    ELSE "ok"

\* The row after the patch: every field that is present is assigned; a new
\* date re-runs the classifier only for an income row with a fiscal period.
update_row(old, data) ==
    LET reclassify == /\ data.transaction_date # NoDate
                      /\ old.fiscal_period # NoPeriod
                      /\ old.type = INCOME
        flags == classify_payment(old.fiscal_period, data.transaction_date)
    IN  [old EXCEPT
           !.amount = IF data.amount # NoAmount THEN data.amount ELSE @,
           !.status = IF data.status # NULL THEN data.status ELSE @,
           !.transaction_date =
               IF data.transaction_date # NoDate THEN data.transaction_date ELSE @,
           !.is_advance_payment = IF reclassify THEN flags.is_advance ELSE @,
           !.is_late_payment = IF reclassify THEN flags.is_late ELSE @,
           !.category_id = IF data.category_id # NULL THEN data.category_id ELSE @,
           !.unit_id = IF data.unit_id # NULL THEN data.unit_id ELSE @]

\* The reversal taken from the row as patched: its new amount on its new unit.
update_units_patched(old, data) ==
    LET new == update_row(old, data)
    IN  IF /\ data.status \in {CANCELLED, REFUNDED}
           /\ old.status = CONFIRMED
           /\ new.unit_id # NULL
           /\ _get_unit(new.unit_id) # {}
        THEN [units EXCEPT ![new.unit_id].balance =
                  revert_amount(@, new.type, new.amount)]
        ELSE units

\* The units table after the patch: a confirmed row that becomes cancelled
\* or refunded gives its old amount back to its old unit.
update_units(old, data) ==
    IF /\ data.status \in {CANCELLED, REFUNDED}
       /\ old.status = CONFIRMED
       /\ old.unit_id # NULL
       /\ _get_unit(old.unit_id) # {}
    THEN [units EXCEPT ![old.unit_id].balance =
              revert_amount(@, old.type, old.amount)]
    ELSE units

update_transaction(condo, transaction_id, data) ==
    /\ LET err == update_error(condo, transaction_id, data)
       IN  IF err # "ok"
           THEN /\ last' = [op |-> "update", condo |-> condo,
                            result |-> err, ret |-> <<>>]
                /\ UNCHANGED <<units, transactions>>
           ELSE /\ transactions' =
                     [transactions EXCEPT
                        ![transaction_id] = update_row(@, data)]
                /\ units' = update_units(transactions[transaction_id], data)
                /\ last' = [op |-> "update", condo |-> condo,
                            result |-> "ok", ret |-> <<>>]
    /\ UNCHANGED <<categories, users, sess, platform>>

(* ------------------------------------------------------------------ *)
(* TransactionService.delete_transaction                               *)
(* ------------------------------------------------------------------ *)
\* The reversal without the test of the status.
delete_units_always(old) ==
    IF /\ old.unit_id # NULL
       /\ _get_unit(old.unit_id) # {}
    THEN [units EXCEPT ![old.unit_id].balance =
              revert_amount(@, old.type, old.amount)]
    ELSE units

\* The units table after delete_transaction: any row that is not yet
\* cancelled gives its amount back to its unit.
delete_units(old) ==
    IF /\ old.status # CANCELLED
       /\ old.unit_id # NULL
       /\ _get_unit(old.unit_id) # {}
    THEN [units EXCEPT ![old.unit_id].balance =
              revert_amount(@, old.type, old.amount)]
    ELSE units

delete_transaction(condo, transaction_id) ==
    /\ IF get_transaction(condo, transaction_id) = {}
       THEN /\ last' = [op |-> "delete", condo |-> condo,
                        result |-> "TRANSACTION_NOT_FOUND", ret |-> <<>>]
            /\ UNCHANGED <<units, transactions>>
       ELSE /\ transactions' =
                 [transactions EXCEPT ![transaction_id].status = CANCELLED]
            /\ units' = delete_units(transactions[transaction_id])
            /\ last' = [op |-> "delete", condo |-> condo,
                        result |-> "ok", ret |-> <<>>]
    /\ UNCHANGED <<categories, users, sess, platform>>

(* ------------------------------------------------------------------ *)
(* TransactionService.cancel_transaction                               *)
(* ------------------------------------------------------------------ *)
\* The units table after cancel_transaction: only a confirmed row with a
\* unit is reversed.
cancel_units(old) ==
    IF /\ old.status = CONFIRMED
       /\ old.unit_id # NULL
       /\ old.unit_id \in DOMAIN units
    THEN [units EXCEPT ![old.unit_id].balance =
              revert_amount(@, old.type, old.amount)]
    ELSE units

\* The guard that rejects nothing.
cancel_rejected_never(old) == FALSE

\* if transaction.status == CANCELLED: raise HTTPException(400)
cancel_rejected(old) == old.status = CANCELLED

\* What the caller gets after the commit: the re-query selects every row of
\* the table and scalar_one() raises unless there is exactly one.
cancel_response ==
    IF Len(transactions) = 1 THEN "ok" ELSE "MultipleResultsFound"

cancel_transaction(condo, transaction_id) ==
    /\ IF get_transaction(condo, transaction_id) = {}
       THEN /\ last' = [op |-> "cancel", condo |-> condo,
                        result |-> "TRANSACTION_NOT_FOUND", ret |-> <<>>]
            /\ UNCHANGED <<units, transactions>>
       ELSE IF cancel_rejected(transactions[transaction_id])
       THEN /\ last' = [op |-> "cancel", condo |-> condo,
                        result |-> "ALREADY_CANCELLED", ret |-> <<>>]
            /\ UNCHANGED <<units, transactions>>
       ELSE /\ transactions' =
                 [transactions EXCEPT ![transaction_id].status = CANCELLED]
            /\ units' = cancel_units(transactions[transaction_id])
            /\ last' = [op |-> "cancel", condo |-> condo,
                        result |-> cancel_response, ret |-> <<>>]
    /\ UNCHANGED <<categories, users, sess, platform>>

(* ------------------------------------------------------------------ *)
(* The ledger: the requests of one condominium                          *)
(* ------------------------------------------------------------------ *)
\* Unit rows as scripts/setup_new_client.py creates them: balance 0.
UnitRow(condo, status, fee) ==
    [condominium_id |-> condo, status |-> status, monthly_fee |-> fee,
     balance |-> 0]

\* Category rows.
CategoryRow(condo, name, type, common, system) ==
    [condominium_id |-> condo, name |-> name, type |-> type,
     is_common_expense |-> common, is_system |-> system]

LedgerUnits ==
    [u \in {"u1", "u2"} |-> UnitRow("A", OCCUPIED, 2)]

LedgerCategories ==
    [c \in {"cFee", "cServ"} |->
        IF c = "cFee" THEN CategoryRow("A", MAINTENANCE_FEE, INCOME, TRUE, FALSE)
        ELSE CategoryRow("A", "Servicios (Luz/Agua)", EXPENSE, TRUE, FALSE)]

Idle == [op |-> "none", condo |-> NULL, result |-> "ok", ret |-> <<>>]

D_Jun05 == <<2025, 6, 5>>

Amounts == {1, 2}

\* The administrator scripts/setup_new_client.py creates.
LedgerUsers ==
    {[id |-> "adminA", role |-> "admin", condominium_id |-> "A"]}

\* The C library of the deployment: glibc, which does not pad %Y.
Glibc == [pad_year |-> FALSE]

\* The transactions table holds at most MaxTx rows.
TxCap == Len(transactions) <= MaxTx

\* Every balance stays within -MaxBalance .. MaxBalance.
BalanceCap ==
    \A u \in DOMAIN units :
        units[u].balance >= -MaxBalance /\ units[u].balance <= MaxBalance

\* TransactionCreate bodies of the ledger specification: a maintenance-fee
\* income or a service expense of either unit.
LedgerCreates ==
    {[type |-> categories[c].type, amount |-> a, category_id |-> c,
      transaction_date |-> D_Jun05, unit_id |-> u, fiscal_period |-> NoPeriod] :
        c \in {"cFee", "cServ"}, a \in Amounts, u \in {"u1", "u2"}}

\* TransactionUpdate bodies of the ledger specification: one field, or the
\* status together with the amount or the unit.
LedgerPatches ==
    {[NoPatch EXCEPT !.amount = a] : a \in Amounts}
    \cup {[NoPatch EXCEPT !.status = s] : s \in TransactionStatus}
    \cup {[NoPatch EXCEPT !.unit_id = u] : u \in {"u1", "u2"}}
    \cup {[NoPatch EXCEPT !.status = CANCELLED, !.amount = a] : a \in Amounts}
    \cup {[NoPatch EXCEPT !.status = REFUNDED, !.unit_id = u] :
             u \in {"u1", "u2"}}

Init ==
    /\ units = LedgerUnits
    /\ categories = LedgerCategories
    /\ transactions = <<>>
    /\ last = Idle
    /\ users = LedgerUsers
    /\ sess = <<>>
    /\ platform = Glibc

CreateTransaction ==
    /\ \E data \in LedgerCreates : create_transaction("A", data)
    /\ TxCap'
    /\ BalanceCap'

UpdateTransaction ==
    /\ \E id \in 1..MaxTx, data \in LedgerPatches :
          update_transaction("A", id, data)
    /\ BalanceCap'

DeleteTransaction ==
    /\ \E id \in 1..MaxTx : delete_transaction("A", id)
    /\ BalanceCap'

CancelTransaction ==
    /\ \E id \in 1..MaxTx : cancel_transaction("A", id)
    /\ BalanceCap'

Next ==
    \/ CreateTransaction
    \/ UpdateTransaction
    \/ DeleteTransaction
    \/ CancelTransaction

Spec == Init /\ [][Next]_vars

(* ------------------------------------------------------------------ *)
(* Properties of the ledger                                            *)
(* ------------------------------------------------------------------ *)
\* The signed sum of the confirmed transactions of unit u among the first n
\* rows: income adds, expense subtracts.
RECURSIVE confirmed_sum(_, _)
confirmed_sum(u, n) ==
    IF n = 0 THEN 0
    ELSE confirmed_sum(u, n - 1)
         + (IF transactions[n].unit_id = u /\ transactions[n].status = CONFIRMED
            THEN apply_amount(0, transactions[n].type, transactions[n].amount)
            ELSE 0)

\* C1. Balance invariant: in every reachable state every unit's stored
\* balance equals the sum of the amounts of its confirmed income
\* transactions minus the sum of the amounts of its confirmed expense
\* transactions.
C1_BalanceInvariant ==
    \A u \in DOMAIN units :
        units[u].balance = confirmed_sum(u, Len(transactions))

\* What C2 says of one cancel_transaction step on transaction id.
C2_CancelEffect(id) ==
    LET old == transactions[id]
    IN  /\ (id \in TxIds /\ old.status = CONFIRMED /\ old.unit_id # NULL) =>
              /\ units'[old.unit_id].balance =
                    (IF old.type = INCOME
                     THEN units[old.unit_id].balance - old.amount
                     ELSE units[old.unit_id].balance + old.amount)
              /\ \A u \in DOMAIN units \ {old.unit_id} : units'[u] = units[u]
              /\ transactions'[id].status = CANCELLED
        /\ (id \in TxIds /\ old.status = CANCELLED) =>
              /\ last'.result = "ALREADY_CANCELLED"
              /\ units' = units
              /\ transactions' = transactions

\* C2. Cancellation reversal idempotence: cancel_transaction on a confirmed
\* transaction with a unit moves that unit's balance by exactly the reverse
\* of the transaction (income: -amount, expense: +amount) and no other
\* balance; cancel_transaction on an already cancelled transaction is
\* rejected and changes no balance and no transaction.
C2_CancelReversesOnce ==
    [][\A id \in 1..MaxTx :
          cancel_transaction("A", id) => C2_CancelEffect(id)]_vars

\* C2 witness: a transaction was cancelled, its unit is back at 0, and a
\* second cancel has just been rejected.
C2_Witness ==
    /\ last.op = "cancel"
    /\ last.result = "ALREADY_CANCELLED"
    /\ \E i \in TxIds :
          /\ transactions[i].status = CANCELLED
          /\ transactions[i].unit_id # NULL
          /\ units[transactions[i].unit_id].balance = 0

(* ------------------------------------------------------------------ *)
(* The duplicate guard: maintenance-fee payments of two units           *)
(* ------------------------------------------------------------------ *)
\* Largest number of rows of the transactions table of this specification.
MaxDupTx == 2

\* TransactionCreate bodies: a maintenance-fee payment of June 2025.
DupCreates ==
    {[type |-> INCOME, amount |-> 1, category_id |-> "cFee",
      transaction_date |-> D_Jun05, unit_id |-> u, fiscal_period |-> NoPeriod] :
        u \in {"u1", "u2"}}

\* TransactionUpdate bodies: the unit, or the status.
DupPatches ==
    {[NoPatch EXCEPT !.unit_id = u] : u \in {"u1", "u2"}}
    \cup {[NoPatch EXCEPT !.status = s] : s \in {CONFIRMED, CANCELLED}}

InitDup ==
    /\ units = LedgerUnits
    /\ categories = LedgerCategories
    /\ transactions = <<>>
    /\ users = LedgerUsers
    /\ last = Idle
    /\ sess = <<>>
    /\ platform = Glibc

DupCreate ==
    /\ \E data \in DupCreates : create_transaction("A", data)
    /\ Len(transactions') <= MaxDupTx
    /\ BalanceCap'

DupUpdate ==
    /\ \E id \in 1..MaxDupTx, data \in DupPatches :
          update_transaction("A", id, data)
    /\ BalanceCap'

DupCancel ==
    /\ \E id \in 1..MaxDupTx : cancel_transaction("A", id)
    /\ BalanceCap'

NextDup ==
    \/ DupCreate
    \/ DupUpdate
    \/ DupCancel

SpecDup == InitDup /\ [][NextDup]_vars

\* A non-cancelled maintenance-fee income of unit u for fiscal period p.
LivePayment(i, u, p) ==
    /\ transactions[i].type = INCOME
    /\ categories[transactions[i].category_id].name = MAINTENANCE_FEE
    /\ transactions[i].status # CANCELLED
    /\ transactions[i].unit_id = u
    /\ transactions[i].fiscal_period = p

\* C3. Duplicate guard: for every unit and fiscal period at most one
\* non-cancelled income transaction of the maintenance-fee category exists.
C3_AtMostOneLivePayment ==
    \A i, j \in TxIds :
        (i # j /\ LivePayment(i, transactions[i].unit_id,
                              transactions[i].fiscal_period))
            => ~LivePayment(j, transactions[i].unit_id,
                            transactions[i].fiscal_period)

(* ------------------------------------------------------------------ *)
(* services/automation.py generate_monthly_fees_job                     *)
(* ------------------------------------------------------------------ *)
\* Decimal("300.00"), in hundreds: the charge of a unit without a fee.
FALLBACK_FEE == 3

\* select(Category).where(Category.name == "Emisión de Cuota"): every
\* condominium's category of that name.
job_categories ==
    {c \in DOMAIN categories : categories[c].name = VIRTUAL_ISSUANCE}

\* select(User).where(User.role == "admin")
job_admins == {u \in users : u.role = "admin"}

\* The existence check that looks for income rows.
job_existing_income(category_id, current_period) ==
    {i \in TxIds : /\ transactions[i].category_id = category_id
                   /\ transactions[i].fiscal_period = current_period
                   /\ transactions[i].type = INCOME}

\* The rows the existence check counts: the category's expense rows of the
\* current period, of any status and any condominium.
job_existing(category_id, current_period) ==
    {i \in TxIds : /\ transactions[i].category_id = category_id
                   /\ transactions[i].fiscal_period = current_period
                   /\ transactions[i].type = EXPENSE}

\* The unit query without its status filter.
job_units_any_status == DOMAIN units

\* select(Unit).where(Unit.status == 'OCCUPIED'): every condominium's units.
job_units == {u \in DOMAIN units : units[u].status = OCCUPIED}

\* unit.monthly_fee if unit.monthly_fee else Decimal("300.00")
job_amount(u) ==
    IF units[u].monthly_fee # 0 THEN units[u].monthly_fee ELSE FALLBACK_FEE

\* The charge of unit u, dated the first of the month.
job_row(u, category_id, today) ==
    [condominium_id     |-> units[u].condominium_id,
     unit_id            |-> u,
     category_id        |-> category_id,
     type               |-> EXPENSE,
     amount             |-> job_amount(u),
     transaction_date   |-> <<today[1], today[2], 1>>,
     fiscal_period      |-> strftime_Ym(today),
     status             |-> CONFIRMED,
     is_advance_payment |-> FALSE,
     is_late_payment    |-> FALSE]

\* The orders in which a query without ORDER BY can return the rows S.
Orders(S) ==
    {f \in [1..Cardinality(S) -> S] : \A x \in S : \E k \in DOMAIN f : f[k] = x}

\* The dictionary the job returns: success is result = "ok"; ret is the
\* current period and "count".
job_result(result, current_period, count) ==
    [op |-> "job", condo |-> NULL, result |-> result,
     ret |-> <<current_period, count>>]

generate_monthly_fees_job(today) ==
    /\ LET current_period == strftime_Ym(today)
       IN  IF Cardinality(job_categories) > 1
           THEN \* scalar_one_or_none() raises; rollback
                /\ last' = job_result("INTERNAL_ERROR", current_period, 0)
                /\ UNCHANGED <<units, transactions>>
           ELSE IF job_categories = {}
           THEN /\ last' = job_result("NO_CATEGORY", current_period, 0)
                /\ UNCHANGED <<units, transactions>>
           ELSE IF job_admins = {}
           THEN /\ last' = job_result("NO_ADMIN", current_period, 0)
                /\ UNCHANGED <<units, transactions>>
           ELSE LET category_id == CHOOSE c \in job_categories : TRUE
                IN  IF job_existing(category_id, current_period) # {}
                       \/ job_units = {}
                    THEN /\ last' = job_result("ok", current_period, 0)
                         /\ UNCHANGED <<units, transactions>>
                    ELSE \E order \in Orders(job_units) :
                         /\ transactions' = transactions \o
                               [k \in 1..Cardinality(job_units) |->
                                   job_row(order[k], category_id, today)]
                         /\ units' =
                               [u \in DOMAIN units |->
                                   IF u \in job_units
                                   THEN [units[u] EXCEPT
                                            !.balance = @ - job_amount(u)]
                                   ELSE units[u]]
                         /\ last' = job_result("ok", current_period,
                                               Cardinality(job_units))
    /\ UNCHANGED <<categories, users, sess, platform>>

(* ------------------------------------------------------------------ *)
(* The monthly job over two condominiums                                *)
(* ------------------------------------------------------------------ *)
\* The category rows of the two condominiums.
AutoCategory(c) ==
    IF c = "cEmi" THEN CategoryRow("A", VIRTUAL_ISSUANCE, EXPENSE, FALSE, FALSE)
    ELSE IF c = "cEmiB"
         THEN CategoryRow("B", VIRTUAL_ISSUANCE, EXPENSE, FALSE, FALSE)
    ELSE CategoryRow("A", MAINTENANCE_FEE, INCOME, TRUE, FALSE)

\* No issuance category yet, the one of condominium A, or one per condominium.
AutoCategoryTables ==
    {[c \in ids |-> AutoCategory(c)] :
        ids \in {{"cFee"}, {"cFee", "cEmi"}, {"cFee", "cEmi", "cEmiB"}}}

\* Unit uA of condominium A and uB of B, occupied, vacant or in maintenance,
\* with a monthly fee or none (the column's default 0).
AutoUnitTables ==
    {[u \in {"uA", "uB"} |->
        IF u = "uA" THEN UnitRow("A", sa, fa) ELSE UnitRow("B", sb, fb)] :
        sa \in {OCCUPIED, VACANT, MAINTENANCE},
        sb \in {OCCUPIED, VACANT, MAINTENANCE},
        fa \in {0, 2}, fb \in {0, 2}}

\* date.today() of a run: the scheduled first of the month, or a manual
\* trigger later in the month.
JobDates == {<<2025, 6, 1>>, <<2025, 6, 15>>, <<2025, 7, 1>>}

\* The clock does not run backwards: no stored charge is dated after today.
ClockAt(today) ==
    \A i \in TxIds : ~DateLess(today, transactions[i].transaction_date)

InitAuto ==
    /\ units \in AutoUnitTables
    /\ categories \in AutoCategoryTables
    /\ transactions = <<>>
    /\ users \in {{}, LedgerUsers}
    /\ last = Idle
    /\ sess = <<>>
    /\ platform = Glibc

RunMonthlyFees ==
    \E today \in JobDates :
        ClockAt(today) /\ generate_monthly_fees_job(today)

AutoCancel ==
    \E id \in TxIds : cancel_transaction("A", id)

NextAuto ==
    \/ RunMonthlyFees
    \/ AutoCancel

SpecAuto == InitAuto /\ [][NextAuto]_vars

\* C4. Automation idempotency: when generate_monthly_fees_job has just
\* succeeded for a fiscal period and runs again in the same period, the
\* second run succeeds with count 0, adds no transaction and leaves every
\* unit balance unchanged.
C4_SecondRunIsNoOp ==
    [][\A today \in JobDates :
          ( /\ generate_monthly_fees_job(today)
            /\ last.op = "job"
            /\ last.result = "ok"
            /\ last.ret[1] = strftime_Ym(today) )
          => ( /\ last'.result = "ok"
               /\ last'.ret[2] = 0
               /\ transactions' = transactions
               /\ units' = units )]_vars

\* C4 witness: the run that has just returned count 0 found the charges an
\* earlier run of the same period created, one of them for a fee-less unit.
C4_Witness ==
    /\ last.op = "job"
    /\ last.result = "ok"
    /\ last.ret[2] = 0
    /\ \E i \in TxIds : /\ transactions[i].fiscal_period = last.ret[1]
                        /\ transactions[i].amount = FALLBACK_FEE
                        /\ units[transactions[i].unit_id].balance < 0

(* ------------------------------------------------------------------ *)
(* api/financial_status.py get_financial_status                         *)
(* ------------------------------------------------------------------ *)
\* The first day of the month and the first day of the next one.
get_month_date_range(year, month) ==
    [month_start |-> <<year, month, 1>>,
     month_end   |-> IF month = 12 THEN <<year + 1, 1, 1>>
                     ELSE <<year, month + 1, 1>>]

\* func.sum(Transaction.amount) over rows; coalesce(..., 0).
RECURSIVE SumAmount(_)
SumAmount(rows) ==
    IF rows = <<>> THEN 0 ELSE Head(rows).amount + SumAmount(Tail(rows))

\* The ids the virtual-category query of the statement can return: the
\* categories of that name that are system-wide or the caller's own.
statement_virtual_ids(condo) ==
    {c \in DOMAIN categories :
        /\ categories[c].name = VIRTUAL_ISSUANCE
        /\ (categories[c].is_system \/ categories[c].condominium_id = condo)}

\* The filter that, without a virtual category, lets no row through.
exclude_internal_charges_closed(t, internal_charge_id) ==
    IF internal_charge_id # NULL THEN t.category_id # internal_charge_id
    ELSE FALSE

\* Transaction.category_id != internal_charge_id if internal_charge_id else True
exclude_internal_charges(t, internal_charge_id) ==
    IF internal_charge_id # NULL THEN t.category_id # internal_charge_id
    ELSE TRUE

\* The multi-tenancy filter without base_filter.
statement_base_any_status(t, condo) ==
    t.condominium_id = condo

\* base_filter and the multi-tenancy filter of every query of the statement.
statement_base(t, condo) ==
    t.status = CONFIRMED /\ t.condominium_id = condo

\* The month test without its lower bound.
in_month_until_end(t, range) ==
    DateLess(t.transaction_date, range.month_end)

\* month_start <= transaction_date < month_end
in_month(t, range) ==
    /\ ~DateLess(t.transaction_date, range.month_start)
    /\ DateLess(t.transaction_date, range.month_end)

\* The category test that accepts the non-common categories too.
is_any_category(t) == TRUE

\* Category.is_common_expense is True, or None (no category joined).
is_common_or_none(t) ==
    \/ t.category_id \notin DOMAIN categories
    \/ categories[t.category_id].is_common_expense

\* Opening remainder: confirmed income minus confirmed, not excluded expense
\* of the condominium dated before the month.
initial_balance_query(txs, condo, range, internal_charge_id) ==
    SumAmount(SelectSeq(txs, LAMBDA t :
        /\ statement_base(t, condo)
        /\ DateLess(t.transaction_date, range.month_start)
        /\ t.type = INCOME))
    - SumAmount(SelectSeq(txs, LAMBDA t :
        /\ statement_base(t, condo)
        /\ DateLess(t.transaction_date, range.month_start)
        /\ t.type = EXPENSE
        /\ exclude_internal_charges(t, internal_charge_id)))

\* The sums and the counts of income_query.
income_query(txs, condo, period, range, internal_charge_id) ==
    [normal_fees |-> SumAmount(SelectSeq(txs, LAMBDA t :
        /\ statement_base(t, condo)
        /\ t.type = INCOME
        /\ t.fiscal_period = period
        /\ in_month(t, range))),
     normal_fees_count |-> Len(SelectSeq(txs, LAMBDA t :
        /\ statement_base(t, condo)
        /\ t.type = INCOME
        /\ t.fiscal_period = period
        /\ in_month(t, range))),
     late_fees_count |-> Len(SelectSeq(txs, LAMBDA t :
        /\ statement_base(t, condo)
        /\ t.type = INCOME
        /\ StrLess(t.fiscal_period, period)
        /\ in_month(t, range))),
     advances_applied_count |-> Len(SelectSeq(txs, LAMBDA t :
        /\ statement_base(t, condo)
        /\ t.type = INCOME
        /\ t.fiscal_period = period
        /\ DateLess(t.transaction_date, range.month_start))),
     advances_received_count |-> Len(SelectSeq(txs, LAMBDA t :
        /\ statement_base(t, condo)
        /\ t.type = INCOME
        /\ StrLess(period, t.fiscal_period)
        /\ in_month(t, range))),
     late_fees_received |-> SumAmount(SelectSeq(txs, LAMBDA t :
        /\ statement_base(t, condo)
        /\ t.type = INCOME
        /\ StrLess(t.fiscal_period, period)
        /\ in_month(t, range))),
     advances_applied |-> SumAmount(SelectSeq(txs, LAMBDA t :
        /\ statement_base(t, condo)
        /\ t.type = INCOME
        /\ t.fiscal_period = period
        /\ DateLess(t.transaction_date, range.month_start))),
     advances_received |-> SumAmount(SelectSeq(txs, LAMBDA t :
        /\ statement_base(t, condo)
        /\ t.type = INCOME
        /\ StrLess(period, t.fiscal_period)
        /\ in_month(t, range))),
     total_expenses |-> SumAmount(SelectSeq(txs, LAMBDA t :
        /\ statement_base(t, condo)
        /\ t.type = EXPENSE
        /\ exclude_internal_charges(t, internal_charge_id)
        /\ is_common_or_none(t)
        /\ in_month(t, range)))]

\* The reserve as the sum of the income flagged as advance payment.
reserve_query_flagged(txs, condo, period) ==
    SumAmount(SelectSeq(txs, LAMBDA t :
        /\ statement_base(t, condo)
        /\ t.type = INCOME
        /\ t.is_advance_payment))

\* Confirmed income of the condominium for periods after the queried one.
reserve_query(txs, condo, period) ==
    SumAmount(SelectSeq(txs, LAMBDA t :
        /\ statement_base(t, condo)
        /\ t.type = INCOME
        /\ StrLess(period, t.fiscal_period)))

\* The final calculations with the applied advances counted as cash again.
final_calculations_applied(period, initial_balance, income_data, advance_reserve) ==
    LET total_income_cash == income_data.normal_fees
                             + income_data.late_fees_received
                             + income_data.advances_received
                             + income_data.advances_applied
        net_period_flow == total_income_cash - income_data.total_expenses
        final_balance == initial_balance + net_period_flow
    IN  [period             |-> period,
         normal_fees        |-> income_data.normal_fees,
         late_fees_received |-> income_data.late_fees_received,
         advances_applied   |-> income_data.advances_applied,
         advances_received  |-> income_data.advances_received,
         normal_fees_count  |-> income_data.normal_fees_count,
         late_fees_count    |-> income_data.late_fees_count,
         advances_applied_count  |-> income_data.advances_applied_count,
         advances_received_count |-> income_data.advances_received_count,
         initial_balance    |-> initial_balance,
         total_income_cash  |-> total_income_cash,
         total_expenses     |-> income_data.total_expenses,
         net_period_flow    |-> net_period_flow,
         final_balance      |-> final_balance,
         advance_reserve    |-> advance_reserve,
         available_balance  |-> final_balance - advance_reserve]

\* Section 6 of the handler and the sums and counts of the response.
final_calculations(period, initial_balance, income_data, advance_reserve) ==
    LET total_income_cash == income_data.normal_fees
                             + income_data.late_fees_received
                             + income_data.advances_received
        net_period_flow == total_income_cash - income_data.total_expenses
        final_balance == initial_balance + net_period_flow
    IN  [period             |-> period,
         normal_fees        |-> income_data.normal_fees,
         late_fees_received |-> income_data.late_fees_received,
         advances_applied   |-> income_data.advances_applied,
         advances_received  |-> income_data.advances_received,
         normal_fees_count  |-> income_data.normal_fees_count,
         late_fees_count    |-> income_data.late_fees_count,
         advances_applied_count  |-> income_data.advances_applied_count,
         advances_received_count |-> income_data.advances_received_count,
         initial_balance    |-> initial_balance,
         total_income_cash  |-> total_income_cash,
         total_expenses     |-> income_data.total_expenses,
         net_period_flow    |-> net_period_flow,
         final_balance      |-> final_balance,
         advance_reserve    |-> advance_reserve,
         available_balance  |-> final_balance - advance_reserve]

\* reserve_detail_query: the reserve per fiscal period, with the number of
\* distinct units (a row without a unit is not counted).
reserve_detail_query(txs, condo, period) ==
    LET rows == SelectSeq(txs, LAMBDA t :
                    /\ statement_base(t, condo)
                    /\ t.type = INCOME
                    /\ StrLess(period, t.fiscal_period))
        of(fp) == SelectSeq(rows, LAMBDA t : t.fiscal_period = fp)
    IN  {[fiscal_period |-> fp,
          amount        |-> SumAmount(of(fp)),
          units_count   |-> Cardinality({of(fp)[k].unit_id :
                                            k \in DOMAIN of(fp)} \ {NULL})] :
            fp \in {rows[k].fiscal_period : k \in DOMAIN rows}}

\* advance_detail_query: the rows of the reserve that have a unit (in table
\* order; the ORDER BY of the query is not part of the model).
advance_detail_query(txs, condo, period) ==
    SelectSeq(txs, LAMBDA t :
        /\ statement_base(t, condo)
        /\ t.type = INCOME
        /\ StrLess(period, t.fiscal_period)
        /\ t.unit_id # NULL)

\* late_payments_query: the late income of the month that has a unit (in
\* table order).
late_payments_query(txs, condo, period, range) ==
    SelectSeq(txs, LAMBDA t :
        /\ statement_base(t, condo)
        /\ t.type = INCOME
        /\ StrLess(t.fiscal_period, period)
        /\ in_month(t, range)
        /\ t.unit_id # NULL)

\* The statement of condominium condo for period over the table txs, when
\* the virtual-category query returned internal_charge_id (NULL: no row):
\* the figures of section 6 and the three lists of section 5.
financial_status(txs, condo, period, internal_charge_id) ==
    LET range == get_month_date_range(int(SubSeq(period, 1, 4)),
                                      int(SubSeq(period, 6, 7)))
    IN  final_calculations(
            period,
            initial_balance_query(txs, condo, range, internal_charge_id),
            income_query(txs, condo, period, range, internal_charge_id),
            reserve_query(txs, condo, period))
        @@ [advance_reserve_summary |->
                reserve_detail_query(txs, condo, period),
            advance_reserve_detail |->
                advance_detail_query(txs, condo, period),
            late_payments_received |->
                late_payments_query(txs, condo, period, range)]

\* cat_result.scalar(): the first row of the query, or None.
scalar(ids) == IF ids = {} THEN {NULL} ELSE ids

get_financial_status(condo, period) ==
    /\ \E internal_charge_id \in scalar(statement_virtual_ids(condo)) :
          last' = [op |-> "financial_status", condo |-> condo,
                   result |-> "ok",
                   ret |-> <<financial_status(transactions, condo, period,
                                              internal_charge_id)>>]
    /\ UNCHANGED <<units, categories, transactions, users, sess, platform>>

(* ------------------------------------------------------------------ *)
(* api/routes/reports.py get_dashboard: the top categories              *)
(* ------------------------------------------------------------------ *)
\* The ids the virtual-category query of the dashboard can return: every
\* condominium's category of that name.
dashboard_virtual_ids ==
    {c \in DOMAIN categories : categories[c].name = VIRTUAL_ISSUANCE}

\* The rows of the pie chart: confirmed, not excluded expense of common
\* categories dated from the first of the current month on, of every
\* condominium, summed per category name (fewer than five names exist, so
\* LIMIT 5 cuts nothing).
top_categories(txs, today, internal_charge_id) ==
    LET rows == SelectSeq(txs, LAMBDA t :
                    /\ t.status = CONFIRMED
                    /\ t.type = EXPENSE
                    /\ exclude_internal_charges(t, internal_charge_id)
                    /\ ~DateLess(t.transaction_date, <<today[1], today[2], 1>>)
                    /\ t.category_id \in DOMAIN categories
                    /\ categories[t.category_id].is_common_expense)
        names == {categories[rows[k].category_id].name : k \in DOMAIN rows}
    IN  {<<n, SumAmount(SelectSeq(rows, LAMBDA t :
                  categories[t.category_id].name = n))>> : n \in names}

get_dashboard(condo, today) ==
    /\ \E internal_charge_id \in scalar(dashboard_virtual_ids) :
          last' = [op |-> "dashboard", condo |-> condo, result |-> "ok",
                   ret |-> <<today,
                             top_categories(transactions, today,
                                            internal_charge_id)>>]
    /\ UNCHANGED <<units, categories, transactions, users, sess, platform>>

(* ------------------------------------------------------------------ *)
(* The statement of two condominiums                                    *)
(* ------------------------------------------------------------------ *)
\* Largest number of rows create_transaction adds in this specification.
MaxStmtTx == 2

\* Condominium A as scripts/setup_new_client.py sets it up; condominium B
\* has a unit and no issuance category of its own.
StmtUnits ==
    [u \in {"uA", "uB"} |->
        IF u = "uA" THEN UnitRow("A", OCCUPIED, 2) ELSE UnitRow("B", OCCUPIED, 1)]

StmtCategories ==
    [c \in {"cFee", "cServ", "cFine", "cEmi"} |->
        IF c = "cFee" THEN CategoryRow("A", MAINTENANCE_FEE, INCOME, TRUE, FALSE)
        ELSE IF c = "cServ"
             THEN CategoryRow("A", "Servicios (Luz/Agua)", EXPENSE, TRUE, FALSE)
        ELSE IF c = "cFine"
             THEN CategoryRow("A", "Multas (Registro)", EXPENSE, FALSE, FALSE)
        ELSE CategoryRow("A", VIRTUAL_ISSUANCE, EXPENSE, FALSE, FALSE)]

D_May20 == <<2025, 5, 20>>

D_Jun20 == <<2025, 6, 20>>

\* Payments of unit uA: for June received in May, for May received in June,
\* for June in June, for July in June; and expenses of May and June.
StmtCreates ==
    {[type |-> INCOME, amount |-> 1, category_id |-> "cFee",
      transaction_date |-> x[1], unit_id |-> "uA", fiscal_period |-> x[2]] :
        x \in {<<D_May20, PeriodStr(2025, 6)>>, <<D_Jun05, PeriodStr(2025, 5)>>,
               <<D_Jun05, NoPeriod>>, <<D_Jun20, PeriodStr(2025, 7)>>}}
    \cup {[type |-> EXPENSE, amount |-> 2, category_id |-> "cServ",
           transaction_date |-> d, unit_id |-> NULL, fiscal_period |-> NoPeriod] :
             d \in {D_May20, D_Jun05}}
    \cup {[type |-> EXPENSE, amount |-> 1, category_id |-> "cFine",
           transaction_date |-> D_Jun05, unit_id |-> "uA",
           fiscal_period |-> NoPeriod]}

StmtPeriods == {PeriodStr(2025, 6), PeriodStr(2025, 7)}

InitStatement ==
    /\ units = StmtUnits
    /\ categories = StmtCategories
    /\ transactions = <<>>
    /\ users = LedgerUsers
    /\ last = Idle
    /\ sess = <<>>
    /\ platform = Glibc

StatementCreate ==
    /\ Len(transactions) < MaxStmtTx
    /\ \E data \in StmtCreates : create_transaction("A", data)

StatementCancel ==
    \E id \in TxIds : cancel_transaction("A", id)

StatementRunFees ==
    generate_monthly_fees_job(<<2025, 6, 1>>)

GetFinancialStatus ==
    \E condo \in {"A", "B"}, period \in StmtPeriods :
        get_financial_status(condo, period)

GetDashboard ==
    \E condo \in {"A", "B"} : get_dashboard(condo, <<2025, 6, 15>>)

NextStatement ==
    \/ StatementCreate
    \/ StatementCancel
    \/ StatementRunFees
    \/ GetFinancialStatus
    \/ GetDashboard

SpecStatement == InitStatement /\ [][NextStatement]_vars

\* C5. Reconciliation identity: every statement get_financial_status
\* returns has total_income_cash = normal_fees + late_fees_received +
\* advances_received, net_period_flow = total_income_cash - total_expenses,
\* final_balance = initial_balance + total_income_cash - total_expenses and
\* available_balance = final_balance - advance_reserve.
C5_ReconciliationIdentity ==
    last.op = "financial_status" =>
        LET r == last.ret[1]
        IN  /\ r.total_income_cash =
                  r.normal_fees + r.late_fees_received + r.advances_received
            /\ r.net_period_flow = r.total_income_cash - r.total_expenses
            /\ r.final_balance =
                  r.initial_balance + r.total_income_cash - r.total_expenses
            /\ r.available_balance = r.final_balance - r.advance_reserve

\* C5 witness: a statement with an opening remainder, applied advances,
\* cash income, expenses and an advance reserve.
C5_Witness ==
    /\ last.op = "financial_status"
    /\ last.ret[1].initial_balance # 0
    /\ last.ret[1].advances_applied > 0
    /\ last.ret[1].total_income_cash > 0
    /\ last.ret[1].advance_reserve > 0

\* The table without the expense rows of a virtual-issuance category.
real_cash(txs) ==
    SelectSeq(txs, LAMBDA t :
        ~(t.type = EXPENSE
          /\ categories[t.category_id].name = VIRTUAL_ISSUANCE))

\* C6. Virtual-charge exclusion: the period expense and the opening
\* remainder of every statement, and the top categories of every
\* dashboard, are what they would be without the confirmed expense rows of
\* the virtual-issuance category.
C6_VirtualChargesExcluded ==
    /\ last.op = "financial_status" =>
          LET r == last.ret[1]
              without == financial_status(real_cash(transactions), last.condo,
                                          r.period, NULL)
          IN  /\ r.total_expenses = without.total_expenses
              /\ r.initial_balance = without.initial_balance
    /\ last.op = "dashboard" =>
          last.ret[2] = top_categories(real_cash(transactions), last.ret[1],
                                       NULL)

(* ------------------------------------------------------------------ *)
(* classify_payment over fiscal periods and dates                        *)
(* ------------------------------------------------------------------ *)
\* A C library that pads %Y to four digits.
Padding == [pad_year |-> TRUE]

\* Years of a transaction_date (a datetime.date holds years 1 to 9999; the
\* schema accepts any), and of a fiscal period (four digits).
ClassifyDateYears == {25, 999, 1000, 2025, 2026}

ClassifyPeriodYears == {1000, 2025, 2026}

ClassifyDates == {<<y, m, 15>> : y \in ClassifyDateYears, m \in 1..12}

ClassifyPeriods == {PeriodStr(y, m) : y \in ClassifyPeriodYears, m \in 1..12}

InitClassify ==
    /\ units = LedgerUnits
    /\ categories = LedgerCategories
    /\ transactions = <<>>
    /\ users = LedgerUsers
    /\ \E fiscal_period \in ClassifyPeriods, transaction_date \in ClassifyDates :
          last = [op |-> "classify_input", condo |-> NULL, result |-> "ok",
                  ret |-> <<fiscal_period, transaction_date>>]
    /\ sess = <<>>
    /\ platform \in {Glibc, Padding}

ClassifyPayment ==
    /\ last.op = "classify_input"
    /\ last' = [op |-> "classify_payment", condo |-> NULL, result |-> "ok",
                ret |-> <<last.ret[1], last.ret[2],
                          classify_payment(last.ret[1], last.ret[2])>>]
    /\ UNCHANGED <<units, categories, transactions, users, sess, platform>>

NextClassify == ClassifyPayment

SpecClassify == InitClassify /\ [][NextClassify]_vars

\* C7. Classification totality and exclusivity: for every fiscal period and
\* transaction date classify_payment never returns both flags; is_advance
\* holds exactly when the fiscal period is later than the year and month of
\* the date, is_late exactly when it is earlier, and both are false exactly
\* when they are equal.
C7_ClassificationExclusive ==
    last.op = "classify_payment" =>
        LET year == int(SubSeq(last.ret[1], 1, 4))
            month == int(SubSeq(last.ret[1], 6, 7))
            d == last.ret[2]
            r == last.ret[3]
            later == year > d[1] \/ (year = d[1] /\ month > d[2])
            earlier == year < d[1] \/ (year = d[1] /\ month < d[2])
        IN  /\ ~(r.is_advance /\ r.is_late)
            /\ r.is_advance = later
            /\ r.is_late = earlier

(* ------------------------------------------------------------------ *)
(* Two condominiums on one transactions table                           *)
(* ------------------------------------------------------------------ *)
\* A read of one transaction through TransactionService.get_transaction:
\* the row, or None (which the route turns into 404).
read_transaction(condo, transaction_id) ==
    /\ last' = IF get_transaction(condo, transaction_id) = {}
               THEN [op |-> "get", condo |-> condo,
                     result |-> "TRANSACTION_NOT_FOUND", ret |-> <<>>]
               ELSE [op |-> "get", condo |-> condo, result |-> "ok",
                     ret |-> <<transactions[transaction_id]>>]
    /\ UNCHANGED <<units, categories, transactions, users, sess, platform>>

\* Largest number of rows of the transactions table of this specification.
MaxTenantTx == 2

Tenants == {"A", "B"}

TenantUnits ==
    [u \in {"uA", "uB"} |->
        IF u = "uA" THEN UnitRow("A", OCCUPIED, 2) ELSE UnitRow("B", OCCUPIED, 2)]

TenantCategories ==
    [c \in {"cFee", "cFeeB"} |->
        IF c = "cFee" THEN CategoryRow("A", MAINTENANCE_FEE, INCOME, TRUE, FALSE)
        ELSE CategoryRow("B", MAINTENANCE_FEE, INCOME, TRUE, FALSE)]

\* The payment a condominium records for its own unit.
TenantCreate(condo) ==
    [type |-> INCOME, amount |-> 1,
     category_id |-> IF condo = "A" THEN "cFee" ELSE "cFeeB",
     transaction_date |-> D_Jun05,
     unit_id |-> IF condo = "A" THEN "uA" ELSE "uB",
     fiscal_period |-> NoPeriod]

TenantPatches ==
    {[NoPatch EXCEPT !.amount = 2], [NoPatch EXCEPT !.status = CANCELLED]}

InitTenant ==
    /\ units = TenantUnits
    /\ categories = TenantCategories
    /\ transactions = <<>>
    /\ users = LedgerUsers
    /\ last = Idle
    /\ sess = <<>>
    /\ platform = Glibc

CreateOwn ==
    /\ Len(transactions) < MaxTenantTx
    /\ \E condo \in Tenants : create_transaction(condo, TenantCreate(condo))

ReadAny ==
    \E condo \in Tenants, id \in 1..MaxTenantTx : read_transaction(condo, id)

UpdateAny ==
    \E condo \in Tenants, id \in 1..MaxTenantTx, data \in TenantPatches :
        update_transaction(condo, id, data)

CancelAny ==
    \E condo \in Tenants, id \in 1..MaxTenantTx : cancel_transaction(condo, id)

NextTenant ==
    \/ CreateOwn
    \/ ReadAny
    \/ UpdateAny
    \/ CancelAny

SpecTenant == InitTenant /\ [][NextTenant]_vars

\* C8. Tenant isolation: a get, update or cancel of a transaction of
\* another condominium answers not found and changes no transaction and no
\* unit balance.
C8_TenantIsolation ==
    [][\A condo \in Tenants, id \in 1..MaxTenantTx :
          ( /\ id \in TxIds
            /\ transactions[id].condominium_id # condo
            /\ \/ read_transaction(condo, id)
               \/ \E data \in TenantPatches : update_transaction(condo, id, data)
               \/ cancel_transaction(condo, id) )
          => ( /\ last'.result = "TRANSACTION_NOT_FOUND"
               /\ transactions' = transactions
               /\ units' = units )]_vars

(* ------------------------------------------------------------------ *)
(* Concurrent create_transaction requests                               *)
(* ------------------------------------------------------------------ *)
\* Each request runs create_transaction in its own database session
\* (core/database.py get_db) under READ COMMITTED: units and transactions
\* are the committed tables, which is all a SELECT of another session sees;
\* sess[s] holds what session s has loaded and flushed.
Sessions == {"s1", "s2"}

SessionIdle ==
    [pc |-> "idle", data |-> <<>>, unit_balance |-> 0, result |-> "none"]

\* Lines 287-297: the category and unit SELECTs; the Unit object keeps the
\* balance it was loaded with.
create_transaction_load(s, data) ==
    /\ sess[s].pc = "idle"
    /\ LET err == create_validation_error(data)
       IN  IF err # "ok"
           THEN /\ sess' = [sess EXCEPT ![s] =
                       [@ EXCEPT !.pc = "done", !.data = <<data>>,
                                 !.result = err]]
                /\ last' = [op |-> "create", condo |-> "A", result |-> err,
                            ret |-> <<>>]
           ELSE /\ sess' = [sess EXCEPT ![s] =
                       [@ EXCEPT !.pc = "loaded", !.data = <<data>>,
                                 !.unit_balance =
                                     IF data.unit_id # NULL
                                     THEN units[data.unit_id].balance ELSE 0]]
                /\ UNCHANGED last
    /\ UNCHANGED <<units, categories, transactions, users, platform>>

\* Lines 299-303: the duplicate pre-check, a SELECT on the committed rows.
create_transaction_check(s) ==
    /\ sess[s].pc = "loaded"
    /\ IF create_duplicate(sess[s].data[1])
       THEN /\ sess' = [sess EXCEPT ![s] =
                   [@ EXCEPT !.pc = "done",
                             !.result = "DUPLICATE_PAYMENT_SAME_PERIOD"]]
            /\ last' = [op |-> "create", condo |-> "A",
                        result |-> "DUPLICATE_PAYMENT_SAME_PERIOD",
                        ret |-> <<>>]
       ELSE /\ sess' = [sess EXCEPT ![s] = [@ EXCEPT !.pc = "checked"]]
            /\ UNCHANGED last
    /\ UNCHANGED <<units, categories, transactions, users, platform>>

\* Another session has flushed an UPDATE of the same units row and not yet
\* committed: it holds the row lock.
row_locked(s, unit_id) ==
    \E o \in Sessions \ {s} :
        sess[o].pc = "flushed" /\ sess[o].data[1].unit_id = unit_id

\* Lines 305-325: unit.balance is changed on the loaded object and flush()
\* sends the INSERT and UPDATE units SET balance = <the new value>; the
\* UPDATE waits for the row lock.
create_transaction_flush(s) ==
    /\ sess[s].pc = "checked"
    /\ LET data == sess[s].data[1]
       IN  /\ data.unit_id # NULL => ~row_locked(s, data.unit_id)
           /\ sess' = [sess EXCEPT ![s] =
                  [@ EXCEPT !.pc = "flushed",
                            !.unit_balance =
                                IF data.unit_id # NULL
                                THEN apply_amount(@, data.type, data.amount)
                                ELSE @]]
    /\ UNCHANGED <<units, categories, transactions, users, last, platform>>

\* The route's db.commit(): the inserted row and the written balance
\* become the committed ones.
create_transaction_commit(s) ==
    /\ sess[s].pc = "flushed"
    /\ LET data == sess[s].data[1]
       IN  /\ transactions' = Append(transactions, create_row("A", data))
           /\ units' = IF data.unit_id # NULL
                       THEN [units EXCEPT ![data.unit_id].balance =
                                 sess[s].unit_balance]
                       ELSE units
           /\ last' = [op |-> "create", condo |-> "A", result |-> "ok",
                       ret |-> IF data.unit_id # NULL
                               THEN <<sess[s].unit_balance>> ELSE <<>>]
    /\ sess' = [sess EXCEPT ![s] = [@ EXCEPT !.pc = "done", !.result = "ok"]]
    /\ UNCHANGED <<categories, users, platform>>

InitConc ==
    /\ units = LedgerUnits
    /\ categories = LedgerCategories
    /\ transactions = <<>>
    /\ users = LedgerUsers
    /\ last = Idle
    /\ sess = [s \in Sessions |-> SessionIdle]
    /\ platform = Glibc

Load ==
    \E s \in Sessions, data \in LedgerCreates : create_transaction_load(s, data)

Check ==
    \E s \in Sessions : create_transaction_check(s)

Flush ==
    \E s \in Sessions : create_transaction_flush(s)

Commit ==
    \E s \in Sessions : create_transaction_commit(s)

NextConc ==
    \/ Load
    \/ Check
    \/ Flush
    \/ Commit

SpecConc == InitConc /\ [][NextConc]_vars

\* C9. No lost balance update: when the two concurrent create_transaction
\* requests have both committed, every unit's balance is the signed sum of
\* the amounts committed for it.
C9_NoLostUpdate ==
    (\A s \in Sessions : sess[s].pc = "done" /\ sess[s].result = "ok") =>
        \A u \in DOMAIN units :
            units[u].balance = confirmed_sum(u, Len(transactions))

\* C10. Duplicate guard under concurrency: two concurrent create_transaction
\* requests for the same maintenance-fee (unit, category, fiscal period)
\* income never both commit.
C10_AtMostOneCommits ==
    \A s, o \in Sessions :
        ( /\ s # o
          /\ sess[s].result = "ok"
          /\ sess[o].result = "ok"
          /\ sess[s].data[1].category_id = sess[o].data[1].category_id
          /\ categories[sess[s].data[1].category_id].name = MAINTENANCE_FEE
          /\ sess[s].data[1].unit_id = sess[o].data[1].unit_id )
        => create_fiscal_period(sess[s].data[1])
               # create_fiscal_period(sess[o].data[1])

(* ------------------------------------------------------------------ *)
(* generate_monthly_fees_job, statement by statement, in its session    *)
(* ------------------------------------------------------------------ *)
\* A run of the job opens its own session (async_session_factory, with
\* autocommit and autoflush off): sess[s] holds the Unit objects it loaded
\* and the Transaction objects it added; the tables change at db.commit().
JobSessionIdle ==
    [pc |-> "idle", today |-> NoDate, category_id |-> NULL, loaded |-> <<>>,
     todo |-> <<>>, pending |-> <<>>, result |-> "none"]

\* Lines 20-65: the dates, the category, the administrator, the existence
\* check and the occupied units, each SELECT reading the committed tables.
job_begin(s, today) ==
    /\ sess[s].pc \in {"idle", "done"}
    /\ LET current_period == strftime_Ym(today)
           returns(result) ==
               /\ sess' = [sess EXCEPT ![s] =
                      [JobSessionIdle EXCEPT !.pc = "done", !.today = today,
                                             !.result = result]]
               /\ last' = job_result(result, current_period, 0)
       IN  IF Cardinality(job_categories) > 1 THEN returns("INTERNAL_ERROR")
           ELSE IF job_categories = {} THEN returns("NO_CATEGORY")
           ELSE IF job_admins = {} THEN returns("NO_ADMIN")
           ELSE LET category_id == CHOOSE c \in job_categories : TRUE
                IN  IF job_existing(category_id, current_period) # {}
                       \/ job_units = {}
                    THEN returns("ok")
                    ELSE \E order \in Orders(job_units) :
                         /\ sess' = [sess EXCEPT ![s] =
                                [JobSessionIdle EXCEPT
                                   !.pc = "charging", !.today = today,
                                   !.category_id = category_id,
                                   !.loaded = [u \in job_units |->
                                                  units[u].balance],
                                   !.todo = order]]
                         /\ UNCHANGED last
    /\ UNCHANGED <<units, categories, transactions, users, platform>>

\* db.add(new_tx) and unit.balance -= amount in a session that commits every
\* statement: the row and the balance are in the tables at once.
job_add_autocommit(row, balance) ==
    /\ transactions' = Append(transactions, row)
    /\ units' = [units EXCEPT ![row.unit_id].balance = balance]

\* db.add(new_tx) and unit.balance -= amount: with autocommit and autoflush
\* off nothing reaches the tables.
job_add(row, balance) ==
    UNCHANGED <<units, transactions>>

\* Lines 71-99: one turn of the loop over the occupied units.
job_charge(s) ==
    /\ sess[s].pc = "charging"
    /\ sess[s].todo # <<>>
    /\ LET u == Head(sess[s].todo)
           row == job_row(u, sess[s].category_id, sess[s].today)
           balance == sess[s].loaded[u] - job_amount(u)
       IN  /\ sess' = [sess EXCEPT ![s] =
                  [@ EXCEPT !.todo = Tail(@),
                            !.pending = Append(@, row),
                            !.loaded = [@ EXCEPT ![u] = balance]]]
           /\ job_add(row, balance)
    /\ UNCHANGED <<categories, users, last, platform>>

\* Line 101: db.commit() flushes the INSERTs and, for every loaded unit,
\* UPDATE units SET balance = <the value in memory>, and commits.
job_commit(s) ==
    /\ sess[s].pc = "charging"
    /\ sess[s].todo = <<>>
    /\ transactions' = transactions \o sess[s].pending
    /\ units' = [u \in DOMAIN units |->
                    IF u \in DOMAIN sess[s].loaded
                    THEN [units[u] EXCEPT !.balance = sess[s].loaded[u]]
                    ELSE units[u]]
    /\ last' = job_result("ok", strftime_Ym(sess[s].today),
                          Len(sess[s].pending))
    /\ sess' = [sess EXCEPT ![s] = [@ EXCEPT !.pc = "done", !.result = "ok"]]
    /\ UNCHANGED <<categories, users, platform>>

\* Lines 107-113: an exception inside the loop or in db.commit() (the store
\* fails): db.rollback() drops what the session holds.
job_fail(s) ==
    /\ sess[s].pc = "charging"
    /\ last' = job_result("INTERNAL_ERROR", strftime_Ym(sess[s].today), 0)
    /\ sess' = [sess EXCEPT ![s] =
           [JobSessionIdle EXCEPT !.pc = "done", !.today = sess[s].today,
                                  !.result = "INTERNAL_ERROR"]]
    /\ UNCHANGED <<units, categories, transactions, users, platform>>

JobBegin ==
    \E s \in DOMAIN sess, today \in JobDates :
        ClockAt(today) /\ job_begin(s, today)

JobCharge ==
    \E s \in DOMAIN sess : job_charge(s)

JobCommit ==
    \E s \in DOMAIN sess : job_commit(s)

JobFail ==
    \E s \in DOMAIN sess : job_fail(s)

NextJob ==
    \/ JobBegin
    \/ JobCharge
    \/ JobCommit
    \/ JobFail

\* The scheduled run alone.
InitJob ==
    /\ units \in AutoUnitTables
    /\ categories \in AutoCategoryTables
    /\ transactions = <<>>
    /\ users \in {{}, LedgerUsers}
    /\ last = Idle
    /\ sess = [s \in {"scheduled"} |-> JobSessionIdle]
    /\ platform = Glibc

SpecJob == InitJob /\ [][NextJob]_vars

\* The fiscal periods of the runs.
JobPeriods == {strftime_Ym(today) : today \in JobDates}

\* The units that have a charge of the issuance category for period p.
job_charged(p) ==
    {transactions[i].unit_id :
        i \in {j \in TxIds : /\ transactions[j].fiscal_period = p
                             /\ transactions[j].category_id \in job_categories}}

\* C11. Automation atomicity: in every committed state, for every fiscal
\* period, either every occupied unit has its charge and its balance has
\* the matching decrement, or no unit has one; a run that fails leaves
\* nothing behind.
C11_AllOrNothing ==
    /\ \A p \in JobPeriods : job_charged(p) = {} \/ job_charged(p) = job_units
    /\ \A u \in DOMAIN units :
          units[u].balance = confirmed_sum(u, Len(transactions))

\* C11 witness: the store failed during a run (one category and an
\* administrator exist, so the run had reached the loop) after an earlier
\* period's run had charged two occupied units.
C11_Witness ==
    /\ last.op = "job"
    /\ last.result = "INTERNAL_ERROR"
    /\ Cardinality(job_categories) = 1
    /\ Cardinality(job_units) = 2
    /\ Len(transactions) = 2
    /\ \A u \in job_units : units[u].balance < 0

(* ------------------------------------------------------------------ *)
(* The scheduled run and a manually triggered run                       *)
(* ------------------------------------------------------------------ *)
\* main.py: the CronTrigger job and POST /v1/admin/trigger-monthly-fees
\* both await generate_monthly_fees_job on the same event loop.
JobRuns == {"scheduled", "manual"}

InitJobConc ==
    /\ units \in AutoUnitTables
    /\ categories \in AutoCategoryTables
    /\ transactions = <<>>
    /\ users = LedgerUsers
    /\ last = Idle
    /\ sess = [s \in JobRuns |-> JobSessionIdle]
    /\ platform = Glibc

SpecJobConc == InitJobConc /\ [][NextJob]_vars

\* C20. Concurrent automation runs: however the scheduled and the manual
\* run interleave, every occupied unit has at most one issuance charge per
\* fiscal period and its balance is decremented once per charge.
C20_OneChargePerPeriod ==
    /\ \A p \in JobPeriods, u \in DOMAIN units :
          Cardinality({i \in TxIds : /\ transactions[i].fiscal_period = p
                                     /\ transactions[i].unit_id = u
                                     /\ transactions[i].category_id
                                            \in job_categories}) <= 1
    /\ (\A s \in DOMAIN sess : sess[s].pc \in {"idle", "done"}) =>
          \A u \in DOMAIN units :
              units[u].balance = confirmed_sum(u, Len(transactions))

(* ------------------------------------------------------------------ *)
(* Properties of the ledger: the status of a transaction                *)
(* ------------------------------------------------------------------ *)
\* C12. Status state machine: a step changes a transaction's status only
\* from pending to confirmed or from confirmed to cancelled or refunded (so
\* a cancelled or refunded transaction keeps its status), and
\* cancel_transaction on a cancelled or refunded transaction is rejected
\* with ALREADY_CANCELLED.
C12_StatusStateMachine ==
    [][\A id \in TxIds :
          LET before == transactions[id].status
              after == transactions'[id].status
          IN  /\ before # after =>
                    \/ before = PENDING /\ after = CONFIRMED
                    \/ before = CONFIRMED /\ after \in {CANCELLED, REFUNDED}
              /\ (before \in {CANCELLED, REFUNDED} /\ cancel_transaction("A", id))
                    => last'.result = "ALREADY_CANCELLED"]_vars

\* What the reversals of one step add to the balance of unit u: the reverse
\* of every row among the first n that was confirmed in before and is
\* cancelled or refunded in after.
RECURSIVE reversal_due(_, _, _, _)
reversal_due(before, after, u, n) ==
    IF n = 0 THEN 0
    ELSE reversal_due(before, after, u, n - 1)
         + (IF /\ before[n].unit_id = u
               /\ before[n].status = CONFIRMED
               /\ after[n].status \in {CANCELLED, REFUNDED}
            THEN revert_amount(0, before[n].type, before[n].amount)
            ELSE 0)

\* C13. Exactly-once reversal: an update_transaction, cancel_transaction or
\* delete_transaction step moves a unit balance by the reverse of the
\* transactions that leave the confirmed state in that step and by nothing
\* else, so a transaction that is already refunded or cancelled, or that is
\* pending, is not reversed.
C13_ReversedOnlyOnLeavingConfirmed ==
    [][Len(transactions') = Len(transactions) =>
          \A u \in DOMAIN units :
              units'[u].balance - units[u].balance =
                  reversal_due(transactions, transactions', u,
                               Len(transactions))]_vars

(* ------------------------------------------------------------------ *)
(* Properties of the statement: the advance reserve                     *)
(* ------------------------------------------------------------------ *)
\* Fiscal period a is a later month than fiscal period b.
later_period(a, b) ==
    LET ya == int(SubSeq(a, 1, 4))
        ma == int(SubSeq(a, 6, 7))
        yb == int(SubSeq(b, 1, 4))
        mb == int(SubSeq(b, 6, 7))
    IN  ya > yb \/ (ya = yb /\ ma > mb)

\* C15. Advance reserve: the advance_reserve of every statement is the sum
\* of the amounts of the condominium's confirmed income transactions whose
\* fiscal period is later than the queried one, whatever their date.
C15_AdvanceReserve ==
    last.op = "financial_status" =>
        LET r == last.ret[1]
        IN  r.advance_reserve =
                SumAmount(SelectSeq(transactions, LAMBDA t :
                    /\ t.condominium_id = last.condo
                    /\ t.status = CONFIRMED
                    /\ t.type = INCOME
                    /\ later_period(t.fiscal_period, r.period)))

\* C15 witness: the statement of 2025-06 counts in its reserve the income
\* for 2025-07 received on 2025-06-20, which is stored as an advance.
C15_Witness ==
    /\ last.op = "financial_status"
    /\ last.condo = "A"
    /\ last.ret[1].period = PeriodStr(2025, 6)
    /\ last.ret[1].advance_reserve = 1
    /\ \E i \in TxIds :
          /\ transactions[i].fiscal_period = PeriodStr(2025, 7)
          /\ transactions[i].transaction_date = D_Jun20
          /\ transactions[i].status = CONFIRMED
          /\ transactions[i].is_advance_payment
          /\ ~transactions[i].is_late_payment

(* ------------------------------------------------------------------ *)
(* Properties of the monthly job: the idempotency marker                *)
(* ------------------------------------------------------------------ *)
\* C19. Per-tenant idempotency marker: a run of the job that succeeds
\* skips a condominium with occupied units exactly when a confirmed expense
\* transaction of the issuance category already exists for that condominium
\* and the current fiscal period; cancelled charges and the charges of
\* another condominium do not make it skip.
C19_PerTenantMarker ==
    [][\A today \in JobDates :
          (generate_monthly_fees_job(today) /\ last'.result = "ok") =>
              \A condo \in Tenants :
                  LET occupied == {u \in job_units :
                                      units[u].condominium_id = condo}
                      marker == \E i \in TxIds :
                          /\ transactions[i].condominium_id = condo
                          /\ transactions[i].category_id \in job_categories
                          /\ transactions[i].fiscal_period = strftime_Ym(today)
                          /\ transactions[i].type = EXPENSE
                          /\ transactions[i].status = CONFIRMED
                      added == {transactions'[i].unit_id :
                                   i \in (Len(transactions) + 1)
                                         ..Len(transactions')}
                  IN  occupied # {} =>
                          ((added \cap occupied = {}) <=> marker)]_vars

(* ------------------------------------------------------------------ *)
(* One request in its database session (core/database.py get_db)        *)
(* ------------------------------------------------------------------ *)
\* Largest number of rows of the transactions table of this specification.
MaxReqTx == 1

\* The session of a request: the operation and its arguments, the row as it
\* was loaded (old_amount, old_unit_id, old_type, old_status), the tables as
\* the session holds them (tx, un: the committed rows with the session's
\* pending changes) and the outcome.
RequestIdle ==
    [pc |-> "idle", op |-> "none", id |-> 0, data |-> <<>>, old |-> <<>>,
     tx |-> <<>>, un |-> <<>>, result |-> "none"]

\* create_transaction up to its flush: a ValueError is raised before
\* anything is added to the session.
request_create(s, data) ==
    /\ sess[s].pc \in {"idle", "done"}
    /\ LET err == create_error(data)
       IN  sess' = [sess EXCEPT ![s] =
               [pc |-> IF err = "ok" THEN "flushed" ELSE "raised",
                op |-> "create", id |-> 0, data |-> <<data>>, old |-> <<>>,
                tx |-> IF err = "ok"
                       THEN Append(transactions, create_row("A", data))
                       ELSE transactions,
                un |-> IF err = "ok" /\ data.unit_id # NULL
                       THEN [units EXCEPT ![data.unit_id].balance =
                                 apply_amount(@, data.type, data.amount)]
                       ELSE units,
                result |-> err]]
    /\ UNCHANGED <<units, categories, transactions, users, last, platform>>

\* The row in the session when update_transaction raises err: lines 338-350
\* have assigned amount, status and date; the category is assigned when its
\* check passed; the unit is not.
update_dirty(old, data, err) ==
    IF err = "CATEGORY_NOT_FOUND"
    THEN update_row(old, [data EXCEPT !.category_id = NULL, !.unit_id = NULL])
    ELSE update_row(old, [data EXCEPT !.unit_id = NULL])

\* update_transaction up to its flush.
request_update(s, id, data) ==
    /\ sess[s].pc \in {"idle", "done"}
    /\ LET err == update_error("A", id, data)
       IN  sess' = [sess EXCEPT ![s] =
               IF err = "TRANSACTION_NOT_FOUND"
               THEN [RequestIdle EXCEPT
                        !.pc = "raised", !.op = "update", !.id = id,
                        !.data = <<data>>, !.tx = transactions, !.un = units,
                        !.result = err]
               ELSE IF err # "ok"
               THEN [pc |-> "raised", op |-> "update", id |-> id,
                     data |-> <<data>>, old |-> <<transactions[id]>>,
                     tx |-> [transactions EXCEPT
                                ![id] = update_dirty(@, data, err)],
                     un |-> units, result |-> err]
               ELSE [pc |-> "flushed", op |-> "update", id |-> id,
                     data |-> <<data>>, old |-> <<transactions[id]>>,
                     tx |-> [transactions EXCEPT ![id] = update_row(@, data)],
                     un |-> update_units(transactions[id], data),
                     result |-> err]]
    /\ UNCHANGED <<units, categories, transactions, users, last, platform>>

\* cancel_transaction up to its db.commit().
request_cancel(s, id) ==
    /\ sess[s].pc \in {"idle", "done"}
    /\ sess' = [sess EXCEPT ![s] =
           IF get_transaction("A", id) = {}
           THEN [RequestIdle EXCEPT
                    !.pc = "raised", !.op = "cancel", !.id = id,
                    !.tx = transactions, !.un = units,
                    !.result = "TRANSACTION_NOT_FOUND"]
           ELSE IF cancel_rejected(transactions[id])
           THEN [RequestIdle EXCEPT
                    !.pc = "raised", !.op = "cancel", !.id = id,
                    !.old = <<transactions[id]>>,
                    !.tx = transactions, !.un = units,
                    !.result = "ALREADY_CANCELLED"]
           ELSE [pc |-> "flushed", op |-> "cancel", id |-> id, data |-> <<>>,
                 old |-> <<transactions[id]>>,
                 tx |-> [transactions EXCEPT ![id].status = CANCELLED],
                 un |-> cancel_units(transactions[id]),
                 result |-> "ok"]]
    /\ UNCHANGED <<units, categories, transactions, users, last, platform>>

\* The answer of a finished request.
request_last(s, result) ==
    [op |-> sess[s].op, condo |-> "A", result |-> result, ret |-> <<>>]

\* A commit that writes the transaction rows and leaves the unit rows.
request_commit_rows_only(s) ==
    /\ sess[s].pc = "flushed"
    /\ transactions' = sess[s].tx
    /\ units' = units
    /\ IF sess[s].op = "cancel"
       THEN /\ sess' = [sess EXCEPT ![s] = [@ EXCEPT !.pc = "committed"]]
            /\ UNCHANGED last
       ELSE /\ sess' = [sess EXCEPT ![s] = [@ EXCEPT !.pc = "done"]]
            /\ last' = request_last(s, "ok")
    /\ UNCHANGED <<categories, users, platform>>

\* db.commit() (the route's, line 224 or 304; for a cancel the service's own,
\* line 417): the session's rows and balances become the committed ones in
\* one database transaction. A cancel goes on to its re-query.
request_commit(s) ==
    /\ sess[s].pc = "flushed"
    /\ transactions' = sess[s].tx
    /\ units' = sess[s].un
    /\ IF sess[s].op = "cancel"
       THEN /\ sess' = [sess EXCEPT ![s] = [@ EXCEPT !.pc = "committed"]]
            /\ UNCHANGED last
       ELSE /\ sess' = [sess EXCEPT ![s] = [@ EXCEPT !.pc = "done"]]
            /\ last' = request_last(s, "ok")
    /\ UNCHANGED <<categories, users, platform>>

\* Lines 426-436 of cancel_transaction: the re-query after the commit.
request_requery(s) ==
    /\ sess[s].pc = "committed"
    /\ sess' = [sess EXCEPT ![s] =
           [@ EXCEPT !.pc = "done", !.result = cancel_response]]
    /\ last' = request_last(s, cancel_response)
    /\ UNCHANGED <<units, categories, transactions, users, platform>>

\* An except clause that commits what the session holds.
get_db_commit(s) ==
    /\ transactions' = sess[s].tx
    /\ units' = sess[s].un

\* get_db, lines 67-69: except Exception: await session.rollback(); raise.
\* Nothing the session holds reaches the tables.
get_db_rollback(s) ==
    UNCHANGED <<units, transactions>>

\* The ValueError or HTTPException of the service leaves the route and
\* reaches get_db.
request_raise(s) ==
    /\ sess[s].pc = "raised"
    /\ get_db_rollback(s)
    /\ sess' = [sess EXCEPT ![s] = [@ EXCEPT !.pc = "done"]]
    /\ last' = request_last(s, sess[s].result)
    /\ UNCHANGED <<categories, users, platform>>

\* The store fails after the flush and before the commit, or in the
\* re-query of a cancel: the exception reaches get_db.
request_store_failure(s) ==
    /\ sess[s].pc \in {"flushed", "committed"}
    /\ get_db_rollback(s)
    /\ sess' = [sess EXCEPT ![s] =
           [@ EXCEPT !.pc = "done", !.result = "INTERNAL_ERROR"]]
    /\ last' = request_last(s, "INTERNAL_ERROR")
    /\ UNCHANGED <<categories, users, platform>>

\* A second date of payment.
D_Jul10 == <<2025, 7, 10>>

\* TransactionCreate bodies: a maintenance-fee payment and a service expense
\* of unit u1, and one body for each validation error.
RequestCreates ==
    LET income == [type |-> INCOME, amount |-> 1, category_id |-> "cFee",
                   transaction_date |-> D_Jun05, unit_id |-> "u1",
                   fiscal_period |-> NoPeriod]
    IN  {income,
         [income EXCEPT !.type = EXPENSE, !.category_id = "cServ",
                        !.amount = 2],
         [income EXCEPT !.category_id = "cNone"],
         [income EXCEPT !.category_id = "cServ"],
         [income EXCEPT !.unit_id = "uNone"],
         [income EXCEPT !.unit_id = NULL]}

\* TransactionUpdate bodies: a status, an amount, a date, a status with an
\* amount or a unit, and changes with a category or unit that does not exist.
RequestPatches ==
    {[NoPatch EXCEPT !.status = CANCELLED],
     [NoPatch EXCEPT !.status = REFUNDED],
     [NoPatch EXCEPT !.amount = 2],
     [NoPatch EXCEPT !.transaction_date = D_Jul10],
     [NoPatch EXCEPT !.status = CANCELLED, !.amount = 2],
     [NoPatch EXCEPT !.status = REFUNDED, !.unit_id = "u2"],
     [NoPatch EXCEPT !.amount = 2, !.category_id = "cNone"],
     [NoPatch EXCEPT !.status = CANCELLED, !.unit_id = "uNone"]}

InitRequest ==
    /\ units = LedgerUnits
    /\ categories = LedgerCategories
    /\ transactions = <<>>
    /\ users = LedgerUsers
    /\ last = Idle
    /\ sess = [s \in {"r1"} |-> RequestIdle]
    /\ platform = Glibc

RequestCreate ==
    \E s \in DOMAIN sess, data \in RequestCreates :
        /\ request_create(s, data)
        /\ Len(sess'[s].tx) <= MaxReqTx

RequestUpdate ==
    \E s \in DOMAIN sess, id \in 1..MaxReqTx, data \in RequestPatches :
        request_update(s, id, data)

RequestCancel ==
    \E s \in DOMAIN sess, id \in 1..MaxReqTx : request_cancel(s, id)

RequestCommit ==
    \E s \in DOMAIN sess : request_commit(s)

RequestRequery ==
    \E s \in DOMAIN sess : request_requery(s)

RequestRaise ==
    \E s \in DOMAIN sess : request_raise(s)

RequestStoreFailure ==
    \E s \in DOMAIN sess : request_store_failure(s)

NextRequest ==
    \/ RequestCreate
    \/ RequestUpdate
    \/ RequestCancel
    \/ RequestCommit
    \/ RequestRequery
    \/ RequestRaise
    \/ RequestStoreFailure

SpecRequest == InitRequest /\ [][NextRequest]_vars

(* ------------------------------------------------------------------ *)
(* Properties of a request                                              *)
(* ------------------------------------------------------------------ *)
\* C14. Derived flags are never stale: every stored transaction, of either
\* type, has is_advance_payment exactly when its fiscal period is later
\* than the year and month of its transaction_date and is_late_payment
\* exactly when it is earlier.
C14_FlagsNeverStale ==
    \A i \in TxIds :
        LET t == transactions[i]
            year == int(SubSeq(t.fiscal_period, 1, 4))
            month == int(SubSeq(t.fiscal_period, 6, 7))
            d == t.transaction_date
        IN  /\ t.is_advance_payment =
                  (year > d[1] \/ (year = d[1] /\ month > d[2]))
            /\ t.is_late_payment =
                  (year < d[1] \/ (year = d[1] /\ month < d[2]))

\* The error codes of a rejected create_transaction or update_transaction.
ValidationErrors ==
    {"CATEGORY_NOT_FOUND", "CATEGORY_TYPE_MISMATCH", "UNIT_NOT_FOUND",
     "INCOME_REQUIRES_UNIT", "DUPLICATE_PAYMENT_SAME_PERIOD",
     "TRANSACTION_NOT_FOUND"}

\* C16. Validation errors mutate nothing: no step of a create_transaction
\* or update_transaction request that is rejected with a validation error
\* changes the committed transactions or any unit balance.
C16_ValidationErrorsMutateNothing ==
    [][\A s \in DOMAIN sess :
          ( /\ sess'[s].op \in {"create", "update"}
            /\ sess'[s].result \in ValidationErrors )
          => (transactions' = transactions /\ units' = units)]_vars

\* C16 witness: an update_transaction was rejected with CATEGORY_NOT_FOUND
\* after it had assigned the new amount to the row in its session, and the
\* committed row still has the old amount.
C16_Witness ==
    \E s \in DOMAIN sess :
        /\ sess[s].pc = "done"
        /\ sess[s].op = "update"
        /\ sess[s].result = "CATEGORY_NOT_FOUND"
        /\ sess[s].tx[sess[s].id].amount = 2
        /\ transactions[sess[s].id].amount = 1
        /\ last.result = "CATEGORY_NOT_FOUND"

\* C17. Atomic unit of work: a step changes the committed transactions or
\* unit balances only by committing, together, the rows and the balances a
\* create, update or cancel has flushed; a failure of the store at any
\* point commits neither.
C17_AtomicUnitOfWork ==
    [][(transactions' # transactions \/ units' # units) =>
          \E s \in DOMAIN sess :
              /\ sess[s].pc = "flushed"
              /\ sess[s].op \in {"create", "update", "cancel"}
              /\ transactions' = sess[s].tx
              /\ units' = sess[s].un]_vars

\* C17 witness: the store failed between the flush of a create_transaction
\* and the commit; neither the row nor the balance the session held is in
\* the tables.
C17_Witness ==
    \E s \in DOMAIN sess :
        /\ sess[s].pc = "done"
        /\ sess[s].op = "create"
        /\ sess[s].result = "INTERNAL_ERROR"
        /\ Len(sess[s].tx) = Len(transactions) + 1
        /\ sess[s].un # units
        /\ \A u \in DOMAIN units :
              units[u].balance = confirmed_sum(u, Len(transactions))

\* The update_transaction requests C18 is about: the patch carries a new
\* amount or unit together with the status cancelled or refunded, for a
\* confirmed transaction with a unit.
C18_Case(s) ==
    /\ sess[s].op = "update"
    /\ sess[s].result = "ok"
    /\ sess[s].old # <<>>
    /\ sess[s].old[1].status = CONFIRMED
    /\ sess[s].old[1].unit_id # NULL
    /\ sess[s].data[1].status \in {CANCELLED, REFUNDED}
    /\ \/ sess[s].data[1].amount \notin {NoAmount, sess[s].old[1].amount}
       \/ sess[s].data[1].unit_id \notin {NULL, sess[s].old[1].unit_id}

\* C18. Reversal uses pre-update values: the commit of such an update moves
\* the balance of the transaction's original unit by the reverse of its
\* original amount and type, and no other balance.
C18_ReversalUsesOldValues ==
    [][\A s \in DOMAIN sess :
          ( /\ C18_Case(s)
            /\ sess[s].pc = "flushed"
            /\ sess'[s].pc = "done"
            /\ sess'[s].result = "ok" ) =>
              LET old == sess[s].old[1]
              IN  units' = [units EXCEPT ![old.unit_id].balance =
                               revert_amount(@, old.type, old.amount)]]_vars

\* C18 witness: a payment of 1 of unit u1 was moved to unit u2 and refunded
\* in one update; u1 is back at 0 and u2 was not touched.
C18_Witness ==
    \E s \in DOMAIN sess :
        /\ C18_Case(s)
        /\ sess[s].pc = "done"
        /\ sess[s].old[1].unit_id = "u1"
        /\ sess[s].old[1].type = INCOME
        /\ transactions[sess[s].id].unit_id = "u2"
        /\ transactions[sess[s].id].status = REFUNDED
        /\ units["u1"].balance = 0
        /\ units["u2"].balance = 0

income_of_month(condo, p) ==
    SelectSeq(transactions, LAMBDA t :
        /\ t.condominium_id = condo
        /\ t.status = CONFIRMED
        /\ t.type = INCOME
        /\ t.transaction_date[1] = int(SubSeq(p, 1, 4))
        /\ t.transaction_date[2] = int(SubSeq(p, 6, 7)))

\* C22. Income partition: in every statement, each confirmed income row of
\* the condominium dated in the period's calendar month is counted in
\* exactly one of normal (fiscal_period = P), late (fiscal_period before P)
\* and advance received (fiscal_period after P): the three sums and counts
\* are those of the three classes, total_income_cash is the sum of all
\* those rows and the three counts add up to their number; income dated
\* outside the month is in none of the three.
C22_IncomePartition ==
    last.op = "financial_status" =>
        LET r == last.ret[1]
            rows == income_of_month(last.condo, r.period)
            normal == SelectSeq(rows, LAMBDA t : t.fiscal_period = r.period)
            late == SelectSeq(rows, LAMBDA t :
                        later_period(r.period, t.fiscal_period))
            advance == SelectSeq(rows, LAMBDA t :
                           later_period(t.fiscal_period, r.period))
        IN  /\ r.normal_fees = SumAmount(normal)
            /\ r.normal_fees_count = Len(normal)
            /\ r.late_fees_received = SumAmount(late)
            /\ r.late_fees_count = Len(late)
            /\ r.advances_received = SumAmount(advance)
            /\ r.advances_received_count = Len(advance)
            /\ Len(normal) + Len(late) + Len(advance) = Len(rows)
            /\ r.total_income_cash = SumAmount(rows)
            /\ r.normal_fees_count + r.late_fees_count
                  + r.advances_received_count = Len(rows)

\* C22 witness: the statement of 2025-06 counts the payment for May received
\* in June once, as late, and leaves the payment for June received in May
\* out of the three classes.
C22_Witness ==
    /\ last.op = "financial_status"
    /\ last.condo = "A"
    /\ last.ret[1].period = PeriodStr(2025, 6)
    /\ last.ret[1].late_fees_count = 1
    /\ last.ret[1].total_income_cash = 1
    /\ last.ret[1].advances_applied_count = 1
    /\ \E i, j \in TxIds :
          /\ transactions[i].transaction_date = D_May20
          /\ transactions[i].type = INCOME
          /\ transactions[i].status = CONFIRMED
          /\ transactions[j].transaction_date = D_Jun05
          /\ transactions[j].type = INCOME
          /\ transactions[j].status = CONFIRMED

(* ------------------------------------------------------------------ *)
(* Properties of the statement: the period expense                     *)
(* ------------------------------------------------------------------ *)
\* The condominium's confirmed expense rows dated in the calendar month of
\* fiscal period p.
expense_of_month(condo, p) ==
    SelectSeq(transactions, LAMBDA t :
        /\ t.condominium_id = condo
        /\ t.status = CONFIRMED
        /\ t.type = EXPENSE
        /\ t.transaction_date[1] = int(SubSeq(p, 1, 4))
        /\ t.transaction_date[2] = int(SubSeq(p, 6, 7)))

\* C23. Period expense scope: the total_expenses of every statement is the
\* sum of the condominium's confirmed expense rows dated in the period's
\* calendar month whose category is not the virtual-issuance category and
\* is a common-expense category or missing; an expense of a category marked
\* non-common is left out.
C23_PeriodExpenseScope ==
    last.op = "financial_status" =>
        LET r == last.ret[1]
        IN  r.total_expenses =
                SumAmount(SelectSeq(expense_of_month(last.condo, r.period),
                    LAMBDA t :
                        \/ t.category_id \notin DOMAIN categories
                        \/ /\ categories[t.category_id].name # VIRTUAL_ISSUANCE
                           /\ categories[t.category_id].is_common_expense))

\* C23 witness: the statement of 2025-06 reports the service expense of June
\* and leaves out the confirmed fine of the same day.
C23_Witness ==
    /\ last.op = "financial_status"
    /\ last.condo = "A"
    /\ last.ret[1].period = PeriodStr(2025, 6)
    /\ last.ret[1].total_expenses = 2
    /\ \E i, j \in TxIds :
          /\ transactions[i].category_id = "cFine"
          /\ transactions[i].status = CONFIRMED
          /\ transactions[i].transaction_date = D_Jun05
          /\ transactions[j].category_id = "cServ"
          /\ transactions[j].status = CONFIRMED
          /\ transactions[j].transaction_date = D_Jun05

(* ------------------------------------------------------------------ *)
(* The statement of a condominium with and without a virtual category   *)
(* ------------------------------------------------------------------ *)
\* Largest number of rows in this specification.
MaxFilterTx == 2

\* The categories of condominium A with its issuance category, and without.
FilterCategoryTables ==
    {StmtCategories,
     [c \in {"cFee", "cServ", "cFine"} |-> StmtCategories[c]]}

\* A payment, a service expense and a fine of May 2025.
FilterCreates ==
    {[type |-> INCOME, amount |-> 2, category_id |-> "cFee",
      transaction_date |-> D_May20, unit_id |-> "uA",
      fiscal_period |-> PeriodStr(2025, 5)],
     [type |-> EXPENSE, amount |-> 1, category_id |-> "cServ",
      transaction_date |-> D_May20, unit_id |-> NULL,
      fiscal_period |-> NoPeriod],
     [type |-> EXPENSE, amount |-> 1, category_id |-> "cFine",
      transaction_date |-> D_May20, unit_id |-> "uA",
      fiscal_period |-> NoPeriod]}

InitFilter ==
    /\ units = StmtUnits
    /\ categories \in FilterCategoryTables
    /\ transactions = <<>>
    /\ users = LedgerUsers
    /\ last = Idle
    /\ sess = <<>>
    /\ platform = Glibc

FilterCreate ==
    /\ Len(transactions) < MaxFilterTx
    /\ \E data \in FilterCreates : create_transaction("A", data)

\* A row is moved to the issuance category (update_transaction checks that
\* the category exists, not its type).
FilterRecategorize ==
    \E id \in TxIds :
        update_transaction("A", id, [NoPatch EXCEPT !.category_id = "cEmi"])

FilterCancel ==
    \E id \in TxIds : cancel_transaction("A", id)

FilterStatement ==
    \E period \in {PeriodStr(2025, 5), PeriodStr(2025, 6)} :
        get_financial_status("A", period)

NextFilter ==
    \/ FilterCreate
    \/ FilterRecategorize
    \/ FilterCancel
    \/ FilterStatement

SpecFilter == InitFilter /\ [][NextFilter]_vars

\* The condominium's confirmed rows of a type dated before the calendar
\* month of fiscal period p.
confirmed_before(condo, type, p) ==
    SelectSeq(transactions, LAMBDA t :
        /\ t.condominium_id = condo
        /\ t.status = CONFIRMED
        /\ t.type = type
        /\ \/ t.transaction_date[1] < int(SubSeq(p, 1, 4))
           \/ /\ t.transaction_date[1] = int(SubSeq(p, 1, 4))
              /\ t.transaction_date[2] < int(SubSeq(p, 6, 7)))

\* C24. Fail-open virtual filter: the statement of a condominium that sees
\* no category named as the virtual-issuance category (its own or a system
\* one) deducts every confirmed expense dated before the month in the
\* opening remainder; and in every statement the filter removes no income:
\* the opening remainder counts every confirmed income dated before the
\* month, and the cash income every confirmed income dated in the month,
\* whatever their category.
C24_FailOpenFilter ==
    last.op = "financial_status" =>
        LET r == last.ret[1]
            income == SumAmount(confirmed_before(last.condo, INCOME, r.period))
            expense == confirmed_before(last.condo, EXPENSE, r.period)
        IN  /\ statement_virtual_ids(last.condo) = {} =>
                  r.initial_balance = income - SumAmount(expense)
            /\ \E id \in scalar(statement_virtual_ids(last.condo)) :
                  r.initial_balance =
                      income - SumAmount(SelectSeq(expense, LAMBDA t :
                                            t.category_id # id))
            /\ r.total_income_cash =
                  SumAmount(income_of_month(last.condo, r.period))

\* C24 witness: without a virtual category, the statement of 2025-06 opens
\* with the service expense and the fine of May deducted.
C24_Witness ==
    /\ last.op = "financial_status"
    /\ last.ret[1].period = PeriodStr(2025, 6)
    /\ statement_virtual_ids(last.condo) = {}
    /\ last.ret[1].initial_balance = -2
    /\ Len(transactions) = 2
    /\ \A i \in TxIds : /\ transactions[i].type = EXPENSE
                         /\ transactions[i].status = CONFIRMED

(* ------------------------------------------------------------------ *)
(* create_transaction with and without a unit                           *)
(* ------------------------------------------------------------------ *)
\* Largest number of rows in this specification.
MaxEntryTx == 2

\* The fee, the two categories of income that needs no unit and a category
\* of expense.
EntryCategories ==
    [c \in {"cFee", "cInt", "cOther", "cServ"} |->
        IF c = "cFee" THEN CategoryRow("A", MAINTENANCE_FEE, INCOME, TRUE, FALSE)
        ELSE IF c = "cInt"
             THEN CategoryRow("A", "Intereses bancarios", INCOME, TRUE, FALSE)
        ELSE IF c = "cOther"
             THEN CategoryRow("A", "Otros ingresos", INCOME, TRUE, FALSE)
        ELSE CategoryRow("A", "Servicios (Luz/Agua)", EXPENSE, TRUE, FALSE)]

\* TransactionCreate bodies: an income or an expense of any category, with
\* either unit or without a unit.
EntryCreates ==
    {[type |-> categories[c].type, amount |-> a, category_id |-> c,
      transaction_date |-> D_Jun05, unit_id |-> u, fiscal_period |-> NoPeriod] :
        c \in DOMAIN EntryCategories, a \in Amounts, u \in {"u1", "u2", NULL}}

InitEntry ==
    /\ units = LedgerUnits
    /\ categories = EntryCategories
    /\ transactions = <<>>
    /\ last = Idle
    /\ users = LedgerUsers
    /\ sess = <<>>
    /\ platform = Glibc

EntryCreate ==
    /\ Len(transactions) < MaxEntryTx
    /\ \E data \in EntryCreates : create_transaction("A", data)

EntryCancel ==
    \E id \in TxIds : cancel_transaction("A", id)

NextEntry ==
    \/ EntryCreate
    \/ EntryCancel

SpecEntry == InitEntry /\ [][NextEntry]_vars

\* C25. Unit-less income allow-list: create_transaction accepts an income
\* without a unit only when its category is named 'Intereses bancarios' or
\* 'Otros ingresos'; for any other income category it is rejected with
\* INCOME_REQUIRES_UNIT and adds no transaction and changes no balance.
C25_UnitlessIncomeAllowList ==
    [][\A data \in EntryCreates :
          ( /\ last'.op = "create"
            /\ data.type = INCOME
            /\ data.unit_id = NULL
            /\ create_transaction("A", data) )
          => IF categories[data.category_id].name
                   \in {"Intereses bancarios", "Otros ingresos"}
             THEN /\ last'.result = "ok"
                  /\ Len(transactions') = Len(transactions) + 1
                  /\ transactions'[Len(transactions')].unit_id = NULL
                  /\ transactions'[Len(transactions')].category_id
                        = data.category_id
             ELSE /\ last'.result = "INCOME_REQUIRES_UNIT"
                  /\ transactions' = transactions
                  /\ units' = units]_vars

\* C25 witness: an income of the fee category without a unit has just been
\* rejected while an earlier bank-interest income without a unit is stored.
C25_Witness ==
    /\ last.op = "create"
    /\ last.result = "INCOME_REQUIRES_UNIT"
    /\ \E i \in TxIds : /\ transactions[i].type = INCOME
                         /\ transactions[i].unit_id = NULL
                         /\ transactions[i].category_id = "cInt"

\* C26. Frame of create: a create_transaction that succeeds with unit U adds
\* the amount to U's balance for an income and subtracts it for an expense,
\* returns the new balance and leaves every other unit's balance
\* unchanged; one that succeeds without a unit leaves every balance
\* unchanged and returns no balance.
C26_CreateFrame ==
    [][\A data \in EntryCreates :
          ( /\ last'.op = "create"
            /\ last'.result = "ok"
            /\ Len(transactions') = Len(transactions) + 1
            /\ transactions'[Len(transactions')].unit_id = data.unit_id
            /\ transactions'[Len(transactions')].amount = data.amount
            /\ transactions'[Len(transactions')].category_id = data.category_id
            /\ create_transaction("A", data) )
          => IF data.unit_id # NULL
             THEN /\ units'[data.unit_id].balance =
                        IF data.type = INCOME
                        THEN units[data.unit_id].balance + data.amount
                        ELSE units[data.unit_id].balance - data.amount
                  /\ last'.ret = <<units'[data.unit_id].balance>>
                  /\ \A u \in DOMAIN units \ {data.unit_id} :
                        units'[u] = units[u]
                  /\ transactions'[Len(transactions')].status = CONFIRMED
             ELSE /\ units' = units
                  /\ last'.ret = <<>>
                  /\ transactions'[Len(transactions')].status = CONFIRMED]_vars

\* C26 witness: a create without a unit has just returned no balance while
\* unit u1 keeps the balance an earlier expense left and u2 has none.
C26_Witness ==
    /\ last.op = "create"
    /\ last.result = "ok"
    /\ last.ret = <<>>
    /\ Len(transactions) = 2
    /\ transactions[2].unit_id = NULL
    /\ transactions[1].unit_id = "u1"
    /\ transactions[1].type = EXPENSE
    /\ units["u1"].balance = -transactions[1].amount
    /\ units["u2"].balance = 0

(* ------------------------------------------------------------------ *)
(* The statement over rows of every status                              *)
(* ------------------------------------------------------------------ *)
\* Largest number of rows in this specification.
MaxStatusTx == 2

\* Payments of May 2025 for May and for June, a payment of June for May, a
\* service expense and a fine of May.
StatusCreates ==
    {[type |-> INCOME, amount |-> 1, category_id |-> "cFee",
      transaction_date |-> x[1], unit_id |-> "uA", fiscal_period |-> x[2]] :
        x \in {<<D_May20, PeriodStr(2025, 5)>>, <<D_May20, PeriodStr(2025, 6)>>,
               <<D_Jun05, PeriodStr(2025, 5)>>}}
    \cup
    {[type |-> EXPENSE, amount |-> 1, category_id |-> c,
      transaction_date |-> D_May20, unit_id |-> NULL,
      fiscal_period |-> NoPeriod] : c \in {"cServ", "cFine"}}

InitStatus ==
    /\ units = StmtUnits
    /\ categories = StmtCategories
    /\ transactions = <<>>
    /\ users = LedgerUsers
    /\ last = Idle
    /\ sess = <<>>
    /\ platform = Glibc

StatusCreate ==
    /\ Len(transactions) < MaxStatusTx
    /\ \E data \in StatusCreates : create_transaction("A", data)

StatusCancel ==
    \E id \in TxIds : cancel_transaction("A", id)

\* A row is set to pending or refunded.
StatusPatch ==
    \E id \in TxIds, status \in {PENDING, REFUNDED} :
        update_transaction("A", id, [NoPatch EXCEPT !.status = status])

StatusStatement ==
    \E period \in {PeriodStr(2025, 5), PeriodStr(2025, 6)} :
        get_financial_status("A", period)

NextStatus ==
    \/ StatusCreate
    \/ StatusCancel
    \/ StatusPatch
    \/ StatusStatement

SpecStatus == InitStatus /\ [][NextStatus]_vars

(* ------------------------------------------------------------------ *)
(* Properties of the statement: only confirmed transactions count       *)
(* ------------------------------------------------------------------ *)
\* The table as if the rows that are not confirmed had never existed.
confirmed_only(txs) ==
    SelectSeq(txs, LAMBDA t : t.status = CONFIRMED)

\* C27. Only confirmed transactions count: every figure and every detail
\* list of every statement is what it would be if the pending, cancelled
\* and refunded transactions had never existed; so after a confirmed
\* transaction is cancelled the statement of every period is the one of the
\* table without it.
C27_OnlyConfirmedCount ==
    last.op = "financial_status" =>
        \E id \in scalar(statement_virtual_ids(last.condo)) :
            last.ret[1] = financial_status(confirmed_only(transactions),
                                           last.condo, last.ret[1].period, id)

\* C27 witness: a statement of 2025-05 returned while a cancelled payment
\* for June and a refunded or pending expense of May are stored: it shows
\* no reserve, no expense and an empty reserve list.
C27_Witness ==
    /\ last.op = "financial_status"
    /\ last.ret[1].period = PeriodStr(2025, 5)
    /\ last.ret[1].advance_reserve = 0
    /\ last.ret[1].advance_reserve_detail = <<>>
    /\ last.ret[1].total_expenses = 0
    /\ \E i, j \in TxIds :
          /\ transactions[i].type = INCOME
          /\ transactions[i].fiscal_period = PeriodStr(2025, 6)
          /\ transactions[i].status = CANCELLED
          /\ transactions[j].type = EXPENSE
          /\ transactions[j].category_id = "cServ"
          /\ transactions[j].status \in {PENDING, REFUNDED}

(* ------------------------------------------------------------------ *)
(* Properties of the statement: the roll-forward of the balance         *)
(* ------------------------------------------------------------------ *)
\* The fiscal period after p.
next_period(p) ==
    LET y == int(SubSeq(p, 1, 4))
        m == int(SubSeq(p, 6, 7))
    IN  IF m = 12 THEN PeriodStr(y + 1, 1) ELSE PeriodStr(y, m + 1)

\* C28. Roll-forward: the final_balance of every statement equals the
\* initial_balance of the statement of the same condominium for the next
\* period, also when the period has confirmed expenses of non-common
\* categories.
C28_RollForward ==
    last.op = "financial_status" =>
        \E id \in scalar(statement_virtual_ids(last.condo)) :
            last.ret[1].final_balance =
                financial_status(transactions, last.condo,
                                 next_period(last.ret[1].period),
                                 id).initial_balance

(* ------------------------------------------------------------------ *)
(* Properties of the ledger: delete_transaction twice                   *)
(* ------------------------------------------------------------------ *)
\* C29. delete_transaction is idempotent: on a transaction that is not
\* cancelled it sets the status to cancelled and takes the amount back
\* from the unit's balance (an income is subtracted, an expense added); on
\* a transaction that is already cancelled it returns success and changes
\* neither the transaction nor any unit balance.
C29_DeleteIdempotent ==
    [][\A id \in TxIds :
          (last'.op = "delete" /\ delete_transaction("A", id))
          => LET old == transactions[id]
             IN  /\ last'.result = "ok"
                 /\ IF old.status # CANCELLED
                    THEN /\ transactions' =
                               [transactions EXCEPT ![id].status = CANCELLED]
                         /\ old.unit_id # NULL =>
                               /\ units'[old.unit_id].balance =
                                     IF old.type = INCOME
                                     THEN units[old.unit_id].balance - old.amount
                                     ELSE units[old.unit_id].balance + old.amount
                               /\ \A u \in DOMAIN units \ {old.unit_id} :
                                     units'[u] = units[u]
                    ELSE /\ transactions' = transactions
                         /\ units' = units]_vars

\* C29 witness: delete_transaction has just succeeded on a transaction that
\* is cancelled, with the balance of its unit back at zero.
C29_Witness ==
    /\ last.op = "delete"
    /\ last.result = "ok"
    /\ Len(transactions) = 1
    /\ transactions[1].status = CANCELLED
    /\ transactions[1].amount = 2
    /\ units[transactions[1].unit_id].balance = 0

(* ------------------------------------------------------------------ *)
(* api/routes/units.py delete_unit                                      *)
(* ------------------------------------------------------------------ *)
\* The count that leaves the cancelled transactions out.
unit_trans_count_live(unit_id) ==
    Cardinality({i \in TxIds : /\ transactions[i].unit_id = unit_id
                               /\ transactions[i].status # CANCELLED})

\* select(func.count(Transaction.id)).where(Transaction.unit_id == unit_id)
unit_trans_count(unit_id) ==
    Cardinality({i \in TxIds : transactions[i].unit_id = unit_id})

\* The route and the commit of its session: the unit is looked up in the
\* caller's condominium, kept when a transaction references it, deleted
\* otherwise.
delete_unit(condo, unit_id) ==
    /\ IF \/ unit_id \notin DOMAIN units
          \/ units[unit_id].condominium_id # condo
       THEN /\ last' = [op |-> "delete_unit", condo |-> condo,
                        result |-> "UNIT_NOT_FOUND", ret |-> <<unit_id>>]
            /\ units' = units
       ELSE IF unit_trans_count(unit_id) > 0
       THEN /\ last' = [op |-> "delete_unit", condo |-> condo,
                        result |-> "UNIT_HAS_TRANSACTIONS",
                        ret |-> <<unit_id>>]
            /\ units' = units
       ELSE /\ last' = [op |-> "delete_unit", condo |-> condo,
                        result |-> "ok", ret |-> <<unit_id>>]
            /\ units' = [u \in DOMAIN units \ {unit_id} |-> units[u]]
    /\ UNCHANGED <<categories, transactions, users, sess, platform>>

\* Largest number of rows in this specification.
MaxUnitTx == 2

\* TransactionCreate bodies: a fee or a service expense of either unit, or
\* an expense without a unit.
UnitCreates ==
    {[type |-> categories[c].type, amount |-> 1, category_id |-> c,
      transaction_date |-> D_Jun05, unit_id |-> u, fiscal_period |-> NoPeriod] :
        c \in {"cFee", "cServ"}, u \in {"u1", "u2"}}
    \cup {[type |-> EXPENSE, amount |-> 1, category_id |-> "cServ",
           transaction_date |-> D_Jun05, unit_id |-> NULL,
           fiscal_period |-> NoPeriod]}

InitUnit ==
    /\ units = LedgerUnits
    /\ categories = LedgerCategories
    /\ transactions = <<>>
    /\ last = Idle
    /\ users = LedgerUsers
    /\ sess = <<>>
    /\ platform = Glibc

UnitCreate ==
    /\ Len(transactions) < MaxUnitTx
    /\ \E data \in UnitCreates : create_transaction("A", data)

\* A row is moved to a unit.
UnitMove ==
    \E id \in TxIds, u \in {"u1", "u2"} :
        update_transaction("A", id, [NoPatch EXCEPT !.unit_id = u])

UnitCancel ==
    \E id \in TxIds : cancel_transaction("A", id)

UnitDeleteTransaction ==
    \E id \in TxIds : delete_transaction("A", id)

DeleteUnit ==
    \E condo \in Tenants, u \in {"u1", "u2"} : delete_unit(condo, u)

NextUnit ==
    \/ UnitCreate
    \/ UnitMove
    \/ UnitCancel
    \/ UnitDeleteTransaction
    \/ DeleteUnit

SpecUnit == InitUnit /\ [][NextUnit]_vars

\* C30. A unit with transactions cannot be deleted: delete_unit on a unit
\* of the caller's condominium that at least one transaction references,
\* whatever its status, is rejected with UNIT_HAS_TRANSACTIONS and deletes
\* nothing; and after every step every transaction with a unit id
\* references a unit that exists.
C30_UnitWithTransactionsKept ==
    [][ /\ \A condo \in Tenants, u \in DOMAIN units :
              ( /\ last'.op = "delete_unit"
                /\ delete_unit(condo, u)
                /\ units[u].condominium_id = condo
                /\ \E i \in TxIds : transactions[i].unit_id = u )
              => /\ last'.result = "UNIT_HAS_TRANSACTIONS"
                 /\ units' = units
                 /\ transactions' = transactions
        /\ \A i \in 1..Len(transactions') :
              transactions'[i].unit_id # NULL =>
                  transactions'[i].unit_id \in DOMAIN units' ]_vars

\* C30 witness: delete_unit has just been rejected for a unit whose only
\* transaction is cancelled, after the other unit was deleted.
C30_Witness ==
    /\ last.op = "delete_unit"
    /\ last.result = "UNIT_HAS_TRANSACTIONS"
    /\ Cardinality(DOMAIN units) = 1
    /\ Len(transactions) = 1
    /\ transactions[1].status = CANCELLED
    /\ transactions[1].unit_id = last.ret[1]
    /\ last.ret[1] \in DOMAIN units
====
